---- MODULE Spec2Model ----
(***************************************************************************)
(* Goods-receiving portal (entradas-app): the ERP client (sap_client.py)   *)
(* and the receiving endpoints (recepciones_api.py, auth.py).              *)
(*                                                                         *)
(* The ERP (SAP Service Layer) and the PostgreSQL store are the            *)
(* environment: every HTTP answer and every SQL outcome is an input drawn  *)
(* from a bounded set.  sha256(json.dumps(..)) is modelled as an injective *)
(* tag on the canonical payload.                                           *)
(***************************************************************************)
EXTENDS Integers, Sequences, FiniteSets, TLC

VARIABLES
    pc,                     \* pc[p]: where request handler p stands
    req,                    \* req[p]: the HTTP request handler p is serving
    client,                 \* client[p]: the SapClient the handler constructed
    loc,                    \* loc[p]: the handler's local variables
    erp,                    \* erp[p]: HTTP interactions with the ERP in this request
    response,               \* response[p]: the HTTP response returned
    receipts_log,           \* the receipts_log table, in insertion order
    today,                  \* dt.date.today(), as a day number
    preferred_date_format,  \* SapClient._preferred_date_format (class attribute)
    cl,                     \* SpecClient: one long-lived SapClient instance
    lastcall,               \* SpecClient: the last method call and its outcome
    now,                    \* SpecClient: wall clock, minutes
    session_at,             \* SpecClient: clock value of the last successful login
    ncalls                  \* SpecClient: calls made so far

handlerVars == <<pc, req, client, loc, erp, response, receipts_log, today>>
clientVars == <<cl, lastcall, now, session_at, ncalls>>
vars == <<handlerVars, preferred_date_format, clientVars>>

(***************************************************************************)
(* Values                                                                  *)
(***************************************************************************)
\* Python None, an absent JSON key, an absent query argument: no string is
\* equal to it
None == <<>>

\* A Python str that stands where None may stand, the string "None" included
Text(s) == <<s>>

\* login() returned: no exception left it
NotRaised == "returned"

\* self._session_id = None
NoSession == 0

\* SSLError / ConnectionError / Timeout raised by requests instead of an answer
NET == "NET"

\* JSON scalars of an ERP payload: a number, null/absent, a non-numeric string
Num(n) == [kind |-> "num", n |-> n]
Null == [kind |-> "null", n |-> 0]
Str == [kind |-> "str", n |-> 0]

\* A JSON number with a fraction, by its literal
Dec(text) == [kind |-> "dec", n |-> 0, text |-> text]

(***************************************************************************)
(* sap_client.py: session and transport                                    *)
(***************************************************************************)
\* Response.raise_for_status(): HTTPError for a 4xx/5xx status
RaisesForStatus(status) == status \in {"400", "401", "404", "500"}

\* _cookie_path_for_base(BASE_URL) for the default base .../b1s/v1
CookiePath == "/b1s/v1"

\* SapClient._DATE_FORMATS
DATE_FORMATS == <<Text("datetimeoffset"), Text("datetime"), Text("iso")>>

\* A constructor that ignores what the class remembers
NewClientDefault(preferred) ==
    [session_id |-> NoSession,
     cookies |-> <<>>,
     date_format |-> DATE_FORMATS[1]]

\* SapClient.__init__: no session, empty cookie jar, the date format the class
\* remembers or else the first candidate
NewClient(preferred) ==
    [session_id |-> NoSession,
     cookies |-> <<>>,
     date_format |-> IF preferred # None THEN preferred ELSE DATE_FORMATS[1]]

\* One HTTP interaction as seen by the stubbed transport
Ev(what, status) == [ev |-> what, status |-> status]

\* The result of a client call: kind is "ok", "HTTPError" or "TransportError"
Outcome(kind, status, c, trace) ==
    [kind |-> kind, status |-> status, client |-> c, trace |-> trace]

\* The domain of a cookie the client sets itself, and the host of the ERP,
\* which is the domain of a cookie stored from a Set-Cookie header
ClientDomain == ""
ErpHost == "host"

\* The path the ERP gives its routing cookie in Set-Cookie
ErpRoutePath == "/b1s"

\* One cookie of the jar of the requests.Session
Cookie(name, value, path, domain) ==
    [name |-> name, value |-> value, path |-> path, domain |-> domain]

\* The jar holds its cookies in nested dicts, domain, then path, then name,
\* each in the order of first insertion: the jar is the sequence of its
\* cookies in that order, the cookies of one domain and of one path together
SameCookieKey(k, ck) == k.name = ck.name /\ k.path = ck.path /\ k.domain = ck.domain

InsertAfter(jar, i, ck) == SubSeq(jar, 1, i) \o <<ck>> \o SubSeq(jar, i + 1, Len(jar))

LastIndex(S) == CHOOSE i \in S : \A j \in S : j <= i

\* RequestsCookieJar.set_cookie: a cookie replaces the one of the same
\* domain, path and name where it stands; a new name comes last in its path,
\* a new path last in its domain, a new domain last in the jar
SetCookie(jar, ck) ==
    LET same == {i \in 1..Len(jar) : SameCookieKey(jar[i], ck)}
        inPath == {i \in 1..Len(jar) :
                     jar[i].domain = ck.domain /\ jar[i].path = ck.path}
        inDomain == {i \in 1..Len(jar) : jar[i].domain = ck.domain}
    IN  IF same # {}
        THEN [i \in 1..Len(jar) |-> IF i \in same THEN ck ELSE jar[i]]
        ELSE IF inPath # {} THEN InsertAfter(jar, LastIndex(inPath), ck)
        ELSE IF inDomain # {} THEN InsertAfter(jar, LastIndex(inDomain), ck)
        ELSE Append(jar, ck)

RECURSIVE StoreCookies(_, _)
\* set_cookie for each cookie of a list, in its order
StoreCookies(jar, cks) ==
    IF cks = <<>> THEN jar ELSE StoreCookies(SetCookie(jar, Head(cks)), Tail(cks))

\* The Set-Cookie headers of a login answer a = [status, sid, route]: sid is
\* the SessionId of the body and of the B1SESSION cookie the ERP sets, route
\* the value of the ROUTEID cookie it sets, None when it sets none
AnswerCookies(a) ==
    (IF a.sid # NoSession
     THEN {Cookie("B1SESSION", a.sid, CookiePath, ErpHost)} ELSE {})
    \cup (IF a.route # None
          THEN {Cookie("ROUTEID", a.route, ErpRoutePath, ErpHost)} ELSE {})

\* The same headers in the order the ERP sends them to a client used by one
\* caller: the session cookie, then the routing cookie
AnswerCookieList(a) ==
    (IF a.sid # NoSession
     THEN <<Cookie("B1SESSION", a.sid, CookiePath, ErpHost)>> ELSE <<>>)
    \o (IF a.route # None
        THEN <<Cookie("ROUTEID", a.route, ErpRoutePath, ErpHost)>> ELSE <<>>)

\* login, lines 84-88: self.s.post goes through the requests.Session, which
\* stores the cookies of the answer in the jar when the answer arrives
ExtractCookies(jar, a) == StoreCookies(jar, AnswerCookieList(a))

\* login, lines 95-100: the jar after clear() and the two cookies.set
InstalledCookies(a) ==
    StoreCookies(<<>>,
        (IF a.sid # NoSession
         THEN <<Cookie("B1SESSION", a.sid, CookiePath, ClientDomain)>> ELSE <<>>)
        \o (IF a.route # None
            THEN <<Cookie("ROUTEID", a.route, "/", ClientDomain)>> ELSE <<>>))

\* SapClient.login with the ERP's answer a = [status, sid, route]: the
\* cookies of the answer are in the jar before raise_for_status; an accepted
\* login then clears the jar and installs its own two cookies
Login(c, a) ==
    IF a.status = NET
    THEN [raised |-> "TransportError", status |-> NET, client |-> c]
    ELSE IF RaisesForStatus(a.status)
    THEN [raised |-> "HTTPError", status |-> a.status,
          client |-> [c EXCEPT !.cookies = ExtractCookies(c.cookies, a)]]
    ELSE [raised |-> NotRaised, status |-> a.status,
          client |-> [c EXCEPT !.session_id = a.sid,
                               !.cookies = InstalledCookies(a)]]

\* SapClient.ensure_session: login only when there is no session id
EnsureSession(c, a) ==
    IF c.session_id = NoSession
    THEN Login(c, a)
    ELSE [raised |-> NotRaised, status |-> "", client |-> c]

\* A transport that logs in and re-sends a second time when the retry after
\* the re-login is answered 401 again
AfterUnauthorizedTwoRetries(c, method, la, s3, trace) ==
    LET re == Login(c, la)
        tl == Append(trace, Ev("login", la.status))
        t3 == Append(tl, Ev(method, s3))
        t5 == t3 \o <<Ev("login", la.status), Ev(method, s3)>>
    IN  IF re.raised # NotRaised THEN Outcome(re.raised, re.status, re.client, tl)
        ELSE IF s3 = NET THEN Outcome("TransportError", NET, re.client, t3)
        ELSE IF s3 = "401" THEN Outcome("HTTPError", s3, re.client, t5)
        ELSE IF RaisesForStatus(s3) THEN Outcome("HTTPError", s3, re.client, t3)
        ELSE Outcome("ok", s3, re.client, t3)

\* A transport that re-sends after a 401 without logging in again
AfterUnauthorizedNoLogin(c, method, la, s3, trace) ==
    LET t3 == Append(trace, Ev(method, s3))
    IN  IF s3 = NET THEN Outcome("TransportError", NET, c, t3)
        ELSE IF RaisesForStatus(s3) THEN Outcome("HTTPError", s3, c, t3)
        ELSE Outcome("ok", s3, c, t3)

\* _request, lines 136-140: the answer was 401; one re-login, one more send
AfterUnauthorized(c, method, la, s3, trace) ==
    LET re == Login(c, la)
        tl == Append(trace, Ev("login", la.status))
        t3 == Append(tl, Ev(method, s3))
    IN  IF re.raised # NotRaised THEN Outcome(re.raised, re.status, re.client, tl)
        ELSE IF s3 = NET THEN Outcome("TransportError", NET, re.client, t3)
        ELSE IF RaisesForStatus(s3) THEN Outcome("HTTPError", s3, re.client, t3)
        ELSE Outcome("ok", s3, re.client, t3)

\* A transport that gives up on the first transport failure
FirstAttemptNoRetry(method, s1, s2, trace) ==
    [raised |-> (s1 = NET), r |-> s1, sent |-> 1,
     trace |-> Append(trace, Ev(method, s1))]

\* _request, lines 122-129: first attempt, and after a transport failure one
\* sleep and one more attempt whose own transport failure propagates
FirstAttempt(method, s1, s2, trace) ==
    IF s1 # NET
    THEN [raised |-> FALSE, r |-> s1, sent |-> 1,
          trace |-> Append(trace, Ev(method, s1))]
    ELSE [raised |-> (s2 = NET), r |-> s2, sent |-> 2,
          trace |-> trace \o <<Ev(method, s1), Ev("sleep", ""), Ev(method, s2)>>]

\* SapClient._request; ans.login and ans.send are the ERP's answers to the
\* successive logins and sends of this call, in order
Request(c, method, ans) ==
    LET needLogin == c.session_id = NoSession
        ens == EnsureSession(c, ans.login[1])
        t0  == IF needLogin THEN <<Ev("login", ans.login[1].status)>> ELSE <<>>
        nl  == IF needLogin THEN 1 ELSE 0
    IN  IF ens.raised # NotRaised THEN Outcome(ens.raised, ens.status, ens.client, t0)
        ELSE
        LET fa == FirstAttempt(method, ans.send[1], ans.send[2], t0)
        IN  IF fa.raised THEN Outcome("TransportError", NET, ens.client, fa.trace)
            ELSE IF fa.r # "401"
            THEN IF RaisesForStatus(fa.r)
                 THEN Outcome("HTTPError", fa.r, ens.client, fa.trace)
                 ELSE Outcome("ok", fa.r, ens.client, fa.trace)
            ELSE AfterUnauthorized(ens.client, method, ans.login[nl + 1],
                                   ans.send[fa.sent + 1], fa.trace)

(***************************************************************************)
(* Bounded answers of the ERP                                              *)
(***************************************************************************)
LoginOk(sid, route) == [status |-> "200", sid |-> sid, route |-> route]
LoginFail(status) == [status |-> status, sid |-> NoSession, route |-> None]

\* A refused login whose answer sets cookies all the same
LoginFailCookies(status, sid, route) == [status |-> status, sid |-> sid, route |-> route]

\* How many interactions of one kind a call made
RECURSIVE CountEv(_, _)
CountEv(trace, what) ==
    IF trace = <<>> THEN 0
    ELSE (IF Head(trace).ev = what THEN 1 ELSE 0) + CountEv(Tail(trace), what)

\* The answers a call never consumes are fixed to a default: the scripts left
\* out only repeat the behaviour of one that is kept
DefaultLogin == LoginOk(1, Text("node1"))

\* The sends of one call over the statuses S: the second is consumed after a
\* transport failure or a 401 of the first, the third after a transport
\* failure and then a 401
SendScripts(S) ==
    {<<s1, "200", "200">> : s1 \in S \ {"401", NET}}
    \cup {<<s1, s2, "200">> : s1 \in S \cap {"401"}, s2 \in S}
    \cup {<<s1, s2, "200">> : s1 \in S \cap {NET}, s2 \in S \ {"401"}}
    \cup {<<s1, s2, s3>> : s1 \in S \cap {NET}, s2 \in S \cap {"401"}, s3 \in S}

Has401(send) == send[1] = "401" \/ (send[1] = NET /\ send[2] = "401")

\* Scripts of a call that starts with a session: the only login is the re-login
ScriptsSession(L, S) ==
    UNION {{[login |-> <<l, DefaultLogin>>, send |-> s] :
              l \in IF Has401(s) THEN L ELSE {DefaultLogin}} :
           s \in SendScripts(S)}

\* Scripts of a call that starts without a session: it logs in first
ScriptsNoSession(L, S) ==
    {[login |-> <<l, DefaultLogin>>, send |-> <<"200", "200", "200">>] :
        l \in {a \in L : a.status # "200"}}
    \cup UNION {{[login |-> <<l1, l2>>, send |-> s] :
                  l1 \in {a \in L : a.status = "200"},
                  l2 \in IF Has401(s) THEN L ELSE {DefaultLogin}} :
               s \in SendScripts(S)}

\* The scripted answers of one _request made by client c: at most two logins
\* answered from L, at most three sends answered from S
ScriptsOver(c, L, S) ==
    IF c.session_id = NoSession THEN ScriptsNoSession(L, S) ELSE ScriptsSession(L, S)

\* The answers offered to the calls of the long-lived client
LoginAnswers ==
    {LoginOk(1, Text("node1")), LoginOk(2, None), LoginFail("400"), LoginFail("500"), LoginFail(NET),
     LoginFailCookies("400", NoSession, Text("node2")), LoginFailCookies("401", 2, Text("node2"))}
SendAnswers == {"200", "400", "401", "500", NET}
Scripts(c) == ScriptsOver(c, LoginAnswers, SendAnswers)

\* The answers offered to the calls of a request handler
HandlerLoginAnswers == {DefaultLogin, LoginFail("400")}
HandlerSendAnswers == {"200", "400", "401", NET}
HandlerScripts(c) == ScriptsOver(c, HandlerLoginAnswers, HandlerSendAnswers)

(***************************************************************************)
(* sap_client.py: detail and posting endpoints                             *)
(***************************************************************************)
\* Python truthiness of an optional string
Truthy(s) == s # None /\ s # Text("")

\* float(x or 0) does not raise: x is a number, null or absent
FloatParses(j) == j.kind # "str"

\* float(x or 0) for a number, null or absent
FloatOrZero(j) == IF j.kind = "num" THEN j.n ELSE 0

(***************************************************************************)
(* float arithmetic on quantities with a fraction. Integral quantities are *)
(* kept as integers: binary64 is exact on them                             *)
(***************************************************************************)
\* float: IEEE-754 binary64, 53 bits of mantissa
MantissaBits == 53

\* n zero bits
Zeros(n) == [i \in 1..n |-> 0]

\* The low width bits of the natural n, lowest bit first
RECURSIVE BitsOf(_, _)
BitsOf(n, width) == IF width = 0 THEN <<>> ELSE <<n % 2>> \o BitsOf(n \div 2, width - 1)

\* The bits without their high zeros
RECURSIVE StripHigh(_)
StripHigh(bits) ==
    IF bits # <<>> /\ bits[Len(bits)] = 0 THEN StripHigh(SubSeq(bits, 1, Len(bits) - 1))
    ELSE bits

\* How many low zeros the bits start with
RECURSIVE LowZeros(_)
LowZeros(bits) == IF bits # <<>> /\ Head(bits) = 0 THEN 1 + LowZeros(Tail(bits)) ELSE 0

\* The number (-1)^neg * bits * 2^exp with an odd mantissa: two numbers are
\* equal exactly when their records are
Canon(neg, bits, exp) ==
    LET b == StripHigh(bits)
        z == LowZeros(b)
    IN  IF b = <<>> THEN [neg |-> FALSE, bits |-> <<>>, exp |-> 0]
        ELSE [neg |-> neg, bits |-> SubSeq(b, z + 1, Len(b)), exp |-> exp + z]

\* The binary64 number with mantissa hi * 2^27 + lo and exponent exp
Double(neg, hi, lo, exp) == Canon(neg, BitsOf(lo, 27) \o BitsOf(hi, 26), exp)

\* Sum of two bit strings of one length
RECURSIVE AddBits(_, _, _)
AddBits(a, b, carry) ==
    IF a = <<>> THEN <<carry>>
    ELSE LET s == Head(a) + Head(b) + carry
         IN  <<s % 2>> \o AddBits(Tail(a), Tail(b), s \div 2)

\* Difference of two bit strings of one length, the first not the smaller
RECURSIVE SubBits(_, _, _)
SubBits(a, b, borrow) ==
    IF a = <<>> THEN <<>>
    ELSE LET d == Head(a) - Head(b) - borrow
         IN  <<(d + 2) % 2>> \o SubBits(Tail(a), Tail(b), IF d < 0 THEN 1 ELSE 0)

\* Comparison of two bit strings of one length
RECURSIVE GeBits(_, _)
GeBits(a, b) ==
    IF a = <<>> THEN TRUE
    ELSE IF a[Len(a)] # b[Len(b)] THEN a[Len(a)] > b[Len(b)]
    ELSE GeBits(SubSeq(a, 1, Len(a) - 1), SubSeq(b, 1, Len(b) - 1))

\* Rounding of an exact result to binary64, ties to even; exponent range
\* and subnormals are not reached by the quantities of an order
RoundToDouble(v) ==
    LET n == Len(v.bits)
        cut == n - MantissaBits
    IN  IF cut <= 0 THEN v
        ELSE LET kept == SubSeq(v.bits, cut + 1, n)
                 up == /\ v.bits[cut] = 1
                       /\ \/ kept[1] = 1
                          \/ \E i \in 1..(cut - 1) : v.bits[i] = 1
             IN  Canon(v.neg,
                       IF up THEN AddBits(kept, Zeros(MantissaBits), 1) ELSE kept,
                       v.exp + cut)

\* float.__add__: the exact sum, rounded
FloatAdd(u, v) ==
    LET e == IF u.exp <= v.exp THEN u.exp ELSE v.exp
        a0 == Zeros(u.exp - e) \o u.bits
        b0 == Zeros(v.exp - e) \o v.bits
        n == IF Len(a0) >= Len(b0) THEN Len(a0) ELSE Len(b0)
        a == a0 \o Zeros(n - Len(a0))
        b == b0 \o Zeros(n - Len(b0))
    IN  RoundToDouble(
            IF u.neg = v.neg THEN Canon(u.neg, AddBits(a, b, 0), e)
            ELSE IF GeBits(a, b) THEN Canon(u.neg, SubBits(a, b, 0), e)
            ELSE Canon(v.neg, SubBits(b, a, 0), e))

\* float.__sub__
FloatSub(u, v) == FloatAdd(u, [v EXCEPT !.neg = ~v.neg /\ v.bits # <<>>])

\* float() of a decimal literal of the ERP's JSON: the nearest binary64
ParseDouble(text) ==
    CASE text = "0.1" -> Double(FALSE, 26843545, 80530637, -55)
      [] text = "0.2" -> Double(FALSE, 26843545, 80530637, -54)
      [] text = "0.3" -> Double(FALSE, 40265318, 53687091, -54)
      [] text = "0.4" -> Double(FALSE, 26843545, 80530637, -53)
      [] text = "0.5" -> Double(FALSE, 0, 1, -1)
      [] text = "0.6" -> Double(FALSE, 40265318, 53687091, -53)
      [] text = "0.7" -> Double(FALSE, 23488102, 53687091, -52)
      [] text = "0.9" -> Double(FALSE, 60397977, 80530637, -53)
      [] text = "1.5" -> Double(FALSE, 0, 3, -1)
      [] text = "1.7" -> Double(FALSE, 57042534, 53687091, -52)
      [] text = "2.5" -> Double(FALSE, 0, 5, -1)
      [] text = "2.9" -> Double(FALSE, 48653926, 53687091, -51)

\* float(x or 0) as a binary64 number
Float(j) ==
    IF j.kind = "dec" THEN ParseDouble(j.text)
    ELSE IF j.kind = "num"
    THEN Canon(j.n < 0, BitsOf(IF j.n < 0 THEN -j.n ELSE j.n, 31), 0)
    ELSE Canon(FALSE, <<>>, 0)

\* float(x or 0) > 0
Positive(j) ==
    IF j.kind = "dec" THEN ~Float(j).neg /\ Float(j).bits # <<>>
    ELSE FloatOrZero(j) > 0

\* get_purchase_order, lines 310-314: the condition of the line filter
KeepDetailLine(d, whs) ==
    ~Truthy(whs) \/ (d.WarehouseCode = whs /\ Positive(d.OpenQuantity))

\* get_purchase_order, lines 310-319: some float() of the filter or of the
\* projection raises ValueError
DetailRaises(o, whs) ==
    \E i \in 1..Len(o.DocumentLines) :
        LET d == o.DocumentLines[i]
        IN  \/ Truthy(whs) /\ d.WarehouseCode = whs /\ ~FloatParses(d.OpenQuantity)
            \/ /\ FloatParses(d.OpenQuantity)
               /\ KeepDetailLine(d, whs)
               /\ ~FloatParses(d.Quantity)
            \/ ~Truthy(whs) /\ ~FloatParses(d.OpenQuantity)

\* A quantity of the line has a fraction
HasDecimal(d) == d.Quantity.kind = "dec" \/ d.OpenQuantity.kind = "dec"

\* get_purchase_order, lines 316-330: the projection of one ERP line
DetailLine(d) ==
    IF HasDecimal(d)
    THEN [lineNum |-> d.LineNum,
          itemCode |-> d.ItemCode,
          orderedQty |-> Float(d.Quantity),
          receivedQty |-> FloatSub(Float(d.Quantity), Float(d.OpenQuantity)),
          openQty |-> Float(d.OpenQuantity),
          warehouseCode |-> d.WarehouseCode]
    ELSE [lineNum |-> d.LineNum,
          itemCode |-> d.ItemCode,
          orderedQty |-> FloatOrZero(d.Quantity),
          receivedQty |-> FloatOrZero(d.Quantity) - FloatOrZero(d.OpenQuantity),
          openQty |-> FloatOrZero(d.OpenQuantity),
          warehouseCode |-> d.WarehouseCode]

\* get_purchase_order, lines 310-337: filter, project, wrap
DetailOf(o, whs) ==
    LET Keep(d) == KeepDetailLine(d, whs)
        kept == SelectSeq(o.DocumentLines, Keep)
    IN  [docEntry |-> o.DocEntry, docNum |-> o.DocNum,
         lines |-> [i \in 1..Len(kept) |-> DetailLine(kept[i])]]

\* A client method's result: the transport outcome plus the returned value
MethodResult(out, kind, value) ==
    [kind |-> kind, status |-> out.status, client |-> out.client,
     trace |-> out.trace, value |-> value]

\* SapClient.get_purchase_order; o is the JSON body of the ERP's 2xx answer
GetPurchaseOrder(c, doc_entry, whs, ans, o) ==
    LET out == Request(c, "GET", ans)
    IN  IF out.kind # "ok" THEN MethodResult(out, out.kind, None)
        ELSE IF DetailRaises(o, whs) THEN MethodResult(out, "ValueError", None)
        ELSE MethodResult(out, "ok", DetailOf(o, whs))

\* A document that never carries the reference field
GrpoPayloadNoReference(po_doc_entry, whs, lines, supplier_ref) ==
    [DocumentLines |->
        [i \in 1..Len(lines) |->
            [BaseType |-> 22,
             BaseEntry |-> po_doc_entry,
             BaseLine |-> lines[i].lineNum,
             Quantity |-> lines[i].quantity,
             WarehouseCode |-> whs]],
     Reference2 |-> None]

\* post_grpo, lines 350-369: the document submitted to the ERP
GrpoPayload(po_doc_entry, whs, lines, supplier_ref) ==
    [DocumentLines |->
        [i \in 1..Len(lines) |->
            [BaseType |-> 22,
             BaseEntry |-> po_doc_entry,
             BaseLine |-> lines[i].lineNum,
             Quantity |-> lines[i].quantity,
             WarehouseCode |-> whs]],
     Reference2 |-> IF Truthy(supplier_ref) THEN supplier_ref ELSE None]

\* SapClient.post_grpo; body is the JSON body of the ERP's 2xx answer
PostGrpo(c, po_doc_entry, whs, lines, supplier_ref, ans, body) ==
    LET out == Request(c, "POST", ans)
    IN  IF out.kind # "ok" THEN MethodResult(out, out.kind, None)
        ELSE MethodResult(out, "ok", body)

(***************************************************************************)
(* sap_client.py: the list endpoint                                        *)
(***************************************************************************)
Max(a, b) == IF a >= b THEN a ELSE b
Min(a, b) == IF a <= b THEN a ELSE b

\* A page size with no upper bound
TopUnbounded(page_size) == Max(1, page_size)

\* get_open_purchase_orders, lines 201-202
Top(page_size) == Max(1, Min(page_size, 100))
Skip(page, top) == Max(0, (Max(1, page) - 1) * top)

\* An escape that leaves the string as it is
EscapeNothing(value) == value

\* _escape_single_quotes on a string given as its characters
RECURSIVE EscapeSingleQuotes(_)
EscapeSingleQuotes(value) ==
    IF value = <<>> THEN <<>>
    ELSE (IF Head(value) = "'" THEN <<"'", "'">> ELSE <<Head(value)>>)
         \o EscapeSingleQuotes(Tail(value))

\* _format_date_literal: the date and the time suffix; fmt is not used
FormatDateLiteral(date_str, fmt) == <<date_str[1], "T00:00:00Z">>

\* _date_literal
DateLiteral(c, d, fmt) ==
    IF ~Truthy(d) THEN <<>>
    ELSE FormatDateLiteral(d, IF Truthy(fmt) THEN fmt ELSE c.date_format)

\* A filter with a condition on the warehouse of the lines
BuildFilterWithWhs(c, due_from, due_to, vendor, whs, fmt) ==
    <<[cond |-> "DocumentStatus eq 'bost_Open'", lit |-> <<>>]>>
    \o (IF Truthy(due_from)
        THEN <<[cond |-> "DocDueDate ge", lit |-> DateLiteral(c, due_from, fmt)]>>
        ELSE <<>>)
    \o (IF Truthy(due_to)
        THEN <<[cond |-> "DocDueDate le", lit |-> DateLiteral(c, due_to, fmt)]>>
        ELSE <<>>)
    \o (IF vendor # <<>>
        THEN <<[cond |-> "CardCode eq",
                lit |-> <<"'">> \o EscapeSingleQuotes(vendor) \o <<"'">>]>>
        ELSE <<>>)
    \o (IF Truthy(whs)
        THEN <<[cond |-> "DocumentLines/any(d: d/WarehouseCode eq", lit |-> <<whs>>]>>
        ELSE <<>>)

\* _build_filter: the conditions joined by " and "; whs adds none
BuildFilter(c, due_from, due_to, vendor, whs, fmt) ==
    <<[cond |-> "DocumentStatus eq 'bost_Open'", lit |-> <<>>]>>
    \o (IF Truthy(due_from)
        THEN <<[cond |-> "DocDueDate ge", lit |-> DateLiteral(c, due_from, fmt)]>>
        ELSE <<>>)
    \o (IF Truthy(due_to)
        THEN <<[cond |-> "DocDueDate le", lit |-> DateLiteral(c, due_to, fmt)]>>
        ELSE <<>>)
    \o (IF vendor # <<>>
        THEN <<[cond |-> "CardCode eq",
                lit |-> <<"'">> \o EscapeSingleQuotes(vendor) \o <<"'">>]>>
        ELSE <<>>)

\* A call that takes every list call for a date-filtered one
DateFiltersAlwaysPresent(due_from, due_to) == TRUE

\* get_open_purchase_orders, line 212
DateFiltersPresent(due_from, due_to) == Truthy(due_from) \/ Truthy(due_to)

\* A list of candidates that keeps the repeats
DedupeNone(fmts, seen) == fmts

\* get_open_purchase_orders, lines 214-219: the candidates without repeats
RECURSIVE Dedupe(_, _)
Dedupe(fmts, seen) ==
    IF fmts = <<>> THEN <<>>
    ELSE IF Truthy(Head(fmts)) /\ Head(fmts) \notin seen
    THEN <<Head(fmts)>> \o Dedupe(Tail(fmts), seen \cup {Head(fmts)})
    ELSE Dedupe(Tail(fmts), seen)

\* get_open_purchase_orders, lines 213-221
FormatsToTry(c, due_from, due_to) ==
    IF DateFiltersPresent(due_from, due_to)
    THEN Dedupe(<<c.date_format>> \o DATE_FORMATS, {})
    ELSE <<None>>

\* get_open_purchase_orders, lines 204-229: the query of one attempt
ListParams(c, due_from, due_to, vendor, whs, page, page_size, fmt) ==
    [top |-> Top(page_size),
     skip |-> Skip(page, Top(page_size)),
     filter |-> BuildFilter(c, due_from, due_to, vendor, whs, fmt),
     expand |-> Truthy(whs)]

\* A fallback taken after any HTTP error
ShouldRetryAnyError(date_present, out, idx, nformats) ==
    /\ date_present
    /\ out.kind = "HTTPError"
    /\ idx < nformats

\* get_open_purchase_orders, lines 239-244
ShouldRetry(date_present, out, idx, nformats) ==
    /\ date_present
    /\ out.kind = "HTTPError"
    /\ out.status = "400"
    /\ idx < nformats

\* A line filter that keeps the lines of the warehouse, open or not
KeepListLineAnyQty(d, whs) == d.WarehouseCode = whs

\* get_open_purchase_orders, lines 266-271: the lines of an order kept
KeepListLine(d, whs) ==
    d.WarehouseCode = whs /\ Positive(d.OpenQuantity)

\* get_open_purchase_orders, lines 262-277: a float() of the filter raises
ListRaises(payload, whs) ==
    /\ Truthy(whs)
    /\ \E i \in 1..Len(payload.value) :
          \E j \in 1..Len(payload.value[i].DocumentLines) :
              LET d == payload.value[i].DocumentLines[j]
              IN  d.WarehouseCode = whs /\ ~FloatParses(d.OpenQuantity)

\* get_open_purchase_orders, lines 258-292: the page returned
ListResult(payload, whs, page, top) ==
    LET Kept(order) ==
            \E j \in 1..Len(order.DocumentLines) : KeepListLine(order.DocumentLines[j], whs)
        rows == IF Truthy(whs) THEN SelectSeq(payload.value, Kept) ELSE payload.value
    IN  [data |-> [i \in 1..Len(rows) |->
                     [docEntry |-> rows[i].DocEntry, docNum |-> rows[i].DocNum]],
         page |-> page, pageSize |-> top, total |-> payload.count]

(***************************************************************************)
(* Bounded payloads of the ERP                                             *)
(***************************************************************************)
ErpLine(ln, w, q, oq) ==
    [LineNum |-> ln, ItemCode |-> "ITEM", WarehouseCode |-> w,
     Quantity |-> q, OpenQuantity |-> oq]

ErpDoc(doc_entry, lines) ==
    [DocEntry |-> doc_entry, DocNum |-> doc_entry, DocumentLines |-> lines]

\* The JSON body the ERP returns for a created delivery note
GrpoBodies == {[DocEntry |-> 900]}

(***************************************************************************)
(* auth.py and recepciones_api.py: pure parts                              *)
(***************************************************************************)
\* A JSON value that is an int, and one that is not (absent, string, float)
JInt(n) == [isint |-> TRUE, n |-> n]
JOther == [isint |-> FALSE, n |-> 0]

\* The members of a sequence
Range(seq) == {seq[i] : i \in 1..Len(seq)}

\* An access check that forgets the membership test
user_can_access_any_whs(whs, user) == Truthy(whs)

\* auth.user_can_access_whs for the authenticated user of the request
user_can_access_whs(whs, user) ==
    IF ~Truthy(whs) THEN FALSE ELSE whs \in Range(user.warehouses)

\* recepciones_api._default_whs_from_user
default_whs_from_user(user) ==
    IF user.warehouses # <<>> THEN user.warehouses[1] ELSE None

\* q.get("whsCode") or _default_whs_from_user()
RequestedWhs(r) ==
    IF Truthy(r.whsCode) THEN r.whsCode ELSE default_whs_from_user(r.user)

\* A response: status, machine-readable code, message and its arguments, body
Resp(status, code, msg, args) ==
    [status |-> status, code |-> code, msg |-> msg, args |-> args, body |-> <<>>]

\* No response returned yet
NoResponse == Resp(0, "", "", <<>>)

\* app.py errorhandler(Exception): an exception that leaves a handler
Unhandled(kind) == Resp(500, "UNEXPECTED_ERROR", kind, <<>>)

\* post_receipt, line 148: lineNum -> openQty of the detail lines, the last
\* entry of a lineNum winning
OpenByLine(lines) ==
    [ln \in {lines[i].lineNum : i \in 1..Len(lines)} |->
        LET last == CHOOSE i \in 1..Len(lines) :
                        /\ lines[i].lineNum = ln
                        /\ \A j \in 1..Len(lines) : lines[j].lineNum = ln => j <= i
        IN  lines[last].openQty]

\* open_by_line.get(ln, 0.0)
MaxOpen(open_by_line, ln) ==
    IF ln \in DOMAIN open_by_line THEN open_by_line[ln] ELSE 0

\* A line check that never compares with the open quantity
CheckLineNoOpenQty(l, open_by_line) ==
    IF ~l.wellformed
    THEN Resp(400, "VALIDATION", "lines: formato invalido", <<>>)
    ELSE IF l.quantity < 0
    THEN Resp(400, "VALIDATION", "Cantidad negativa en linea", <<l.lineNum>>)
    ELSE NoResponse

\* post_receipt, lines 152-171: one line of the request, after the lines
\* before it passed
CheckLine(l, open_by_line) ==
    IF ~l.wellformed
    THEN Resp(400, "VALIDATION", "lines: formato invalido", <<>>)
    ELSE IF l.quantity < 0
    THEN Resp(400, "VALIDATION", "Cantidad negativa en linea", <<l.lineNum>>)
    ELSE IF l.quantity > MaxOpen(open_by_line, l.lineNum)
    THEN Resp(400, "VALIDATION", "Cantidad > OpenQty en linea",
              <<l.quantity, MaxOpen(open_by_line, l.lineNum), l.lineNum>>)
    ELSE NoResponse

\* post_receipt, lines 150-174: the loop over the lines; to_post collects
\* the lines with a positive quantity
RECURSIVE ValidateLines(_, _, _)
ValidateLines(lines, open_by_line, to_post) ==
    IF lines = <<>>
    THEN IF to_post = <<>>
         THEN [error |-> Resp(400, "VALIDATION", "No hay cantidades > 0", <<>>),
               to_post |-> to_post]
         ELSE [error |-> NoResponse, to_post |-> to_post]
    ELSE LET l == Head(lines)
             e == CheckLine(l, open_by_line)
         IN  IF e # NoResponse THEN [error |-> e, to_post |-> to_post]
             ELSE ValidateLines(Tail(lines), open_by_line,
                    IF l.quantity > 0
                    THEN Append(to_post, [lineNum |-> l.lineNum, quantity |-> l.quantity])
                    ELSE to_post)

\* sorted(.., key=lineNum) is stable: x goes after the entries whose lineNum
\* is not greater
RECURSIVE InsertByLineNum(_, _)
InsertByLineNum(sorted, x) ==
    IF sorted = <<>> THEN <<x>>
    ELSE IF Head(sorted).lineNum <= x.lineNum
    THEN <<Head(sorted)>> \o InsertByLineNum(Tail(sorted), x)
    ELSE <<x>> \o sorted

\* sorted(to_post, key=lambda x: x["lineNum"])
RECURSIVE SortByLineNum(_)
SortByLineNum(lines) ==
    IF lines = <<>> THEN <<>>
    ELSE InsertByLineNum(SortByLineNum(SubSeq(lines, 1, Len(lines) - 1)),
                         lines[Len(lines)])

\* post_receipt, lines 179-187: the dict that is hashed; supplierRef is a key
\* only when the request carries a non-empty one
OpPayload(sub, doc_entry, whs, to_post, date, supplierRef) ==
    [sub |-> sub, docEntry |-> doc_entry, whs |-> whs,
     lines |-> SortByLineNum(to_post), date |-> date,
     supplierRef |-> IF Truthy(supplierRef) THEN supplierRef ELSE None]

\* json.dumps(.., sort_keys=True): the values in key order
JsonDumps(d) == <<d.date, d.docEntry, d.lines, d.sub, d.supplierRef, d.whs>>

\* hashlib.sha256(..).hexdigest(), collisions aside
Sha256(text) == <<"sha256", text>>

\* post_receipt, lines 178-191
OpHash(sub, doc_entry, whs, to_post, date, supplierRef) ==
    Sha256(JsonDumps(OpPayload(sub, doc_entry, whs, to_post, date, supplierRef)))

\* SQL NULL in the op_hash column
NullHash == <<>>

\* post_receipt, lines 194-202: "duplicate", "continue" (also after the
\* swallowed psycopg.Error of the SELECT) or "raise" (connect failed)
CheckDuplicate(log, op_hash, db) ==
    IF db = "connect_error" THEN "raise"
    ELSE IF db = "select_error" THEN "continue"
    ELSE IF \E i \in 1..Len(log) : log[i].op_hash = op_hash THEN "duplicate"
    ELSE "continue"

\* sum(x["quantity"] for x in to_post)
RECURSIVE SumQuantity(_)
SumQuantity(lines) ==
    IF lines = <<>> THEN 0 ELSE Head(lines).quantity + SumQuantity(Tail(lines))

\* post_receipt, lines 212-229 and 232-248: the one row inserted
LogRow(doc_entry, whs, to_post, sub, grpo_doc, op_hash) ==
    [po_doc_entry |-> doc_entry, po_line_num |-> None, whs_code |-> whs,
     posted_qty |-> SumQuantity(to_post), posted_by |-> sub,
     sl_doc_entry |-> grpo_doc, op_hash |-> op_hash]

\* A store on which the INSERT without op_hash succeeds after the INSERT with
\* op_hash failed, as on a connection that commits every statement by itself
InsertLogFallbackAccepted(log, row, db) ==
    IF db = "ok" THEN [raised |-> FALSE, log |-> Append(log, row)]
    ELSE IF db = "insert_error"
    THEN [raised |-> FALSE, log |-> Append(log, [row EXCEPT !.op_hash = NullHash])]
    ELSE [raised |-> TRUE, log |-> log]

\* post_receipt, lines 209-249: the INSERT with op_hash and the commit. Both
\* INSERTs run on one cursor in one transaction of the connection, which an
\* error of the first aborts: the INSERT without op_hash of the except branch
\* raises in turn and leaves the handler, and nothing is stored
InsertLog(log, row, db) ==
    IF db = "ok" THEN [raised |-> FALSE, log |-> Append(log, row)]
    ELSE [raised |-> TRUE, log |-> log]

\* Outcomes of the store during the duplicate check and during the logging
CheckDbOutcomes == {"ok", "select_error", "connect_error"}
LogDbOutcomes == {"ok", "insert_error", "connect_error", "commit_error"}

(***************************************************************************)
(* Request handlers: state                                                 *)
(***************************************************************************)
Procs == {1, 2}

NoRequest ==
    [op |-> "none", user |-> [sub |-> None, warehouses |-> <<>>],
     whsCode |-> None, docEntry |-> JOther, supplierRef |-> None, lines |-> <<>>,
     page |-> JOther, pageSize |-> JOther, due_from |-> None, due_to |-> None,
     vendor |-> None]

\* No reading of the cookie jar under way: live, the dict read is the one
\* the jar holds (old is its content when a clear() replaced it); doms and
\* paths, the dicts still to be read; got, the cookies read so far
NoRead ==
    [live |-> TRUE, old |-> <<>>, doms |-> <<>>, dom |-> "", paths |-> <<>>, got |-> {}]

NoLocals ==
    [whs |-> None, open_by_line |-> <<>>, to_post |-> <<>>, op_hash |-> NullHash,
     date |-> 0, grpo_doc |-> 0, posted |-> <<>>, steps |-> <<>>,
     formats_to_try |-> <<>>, idx |-> 0, queries |-> <<>>, answers |-> <<>>,
     payload |-> <<>>, document |-> <<>>, to_store |-> {},
     stale |-> FALSE, rd |-> NoRead]

NoErp == [logins |-> 0, reads |-> 0, writes |-> 0, trace |-> <<>>]

InitHandlers ==
    /\ pc = [p \in Procs |-> "idle"]
    /\ req = [p \in Procs |-> NoRequest]
    /\ client = [p \in Procs |-> NewClient(None)]
    /\ loc = [p \in Procs |-> NoLocals]
    /\ erp = [p \in Procs |-> NoErp]
    /\ response = [p \in Procs |-> NoResponse]
    /\ receipts_log = <<>>
    /\ today = 1
    /\ preferred_date_format = None

\* The HTTP interactions of one client call, added to the request's count
ErpAfter(e, trace) ==
    [logins |-> e.logins + CountEv(trace, "login"),
     reads |-> e.reads + CountEv(trace, "GET"),
     writes |-> e.writes + CountEv(trace, "POST"),
     trace |-> e.trace \o trace]

\* The handler returns resp
Finish(p, resp) ==
    /\ response' = [response EXCEPT ![p] = resp]
    /\ pc' = [pc EXCEPT ![p] = "done"]

\* A request arrives at a free handler
Accept(p, r) ==
    /\ pc[p] = "idle"
    /\ req' = [req EXCEPT ![p] = r]

(***************************************************************************)
(* recepciones_api.post_receipt                                            *)
(***************************************************************************)
\* post_receipt, lines 130-146: parse, authorize, construct the client
PostReceiptBegin(p, r) ==
    /\ Accept(p, r)
    /\ erp' = [erp EXCEPT ![p] = NoErp]
    /\ UNCHANGED <<receipts_log, today, preferred_date_format, clientVars>>
    /\ LET whs == RequestedWhs(r)
           rejected ==
               IF ~r.docEntry.isint
               THEN Resp(400, "VALIDATION", "docEntry invalido", <<>>)
               ELSE IF ~Truthy(whs)
               THEN Resp(400, "VALIDATION", "whsCode requerido", <<>>)
               ELSE IF ~user_can_access_whs(whs, r.user)
               THEN Resp(403, "FORBIDDEN", "Usuario sin acceso a almacen", <<>>)
               ELSE IF r.lines = <<>>
               THEN Resp(400, "VALIDATION", "lines es requerido", <<>>)
               ELSE NoResponse
       IN  IF rejected # NoResponse
           THEN /\ Finish(p, rejected)
                /\ loc' = [loc EXCEPT ![p] = NoLocals]
                /\ UNCHANGED client
           ELSE /\ pc' = [pc EXCEPT ![p] = "validate"]
                /\ response' = [response EXCEPT ![p] = NoResponse]
                /\ loc' = [loc EXCEPT ![p] = [NoLocals EXCEPT !.whs = whs]]
                /\ client' = [client EXCEPT ![p] = NewClient(preferred_date_format)]

\* post_receipt, lines 147-191: read the open quantities from the ERP,
\* validate every line, compute the fingerprint
PostReceiptValidate(p, ans, o) ==
    /\ pc[p] = "validate"
    /\ UNCHANGED <<req, receipts_log, today, preferred_date_format, clientVars>>
    /\ LET r == req[p]
           res == GetPurchaseOrder(client[p], r.docEntry.n, loc[p].whs, ans, o)
       IN  /\ client' = [client EXCEPT ![p] = res.client]
           /\ erp' = [erp EXCEPT ![p] = ErpAfter(erp[p], res.trace)]
           /\ IF res.kind # "ok"
              THEN /\ Finish(p, Unhandled(res.kind))
                   /\ loc' = [loc EXCEPT ![p].steps = Append(@, "erp_read_failed")]
              ELSE LET obl == OpenByLine(res.value.lines)
                       v == ValidateLines(r.lines, obl, <<>>)
                   IN  IF v.error # NoResponse
                       THEN /\ Finish(p, v.error)
                            /\ loc' = [loc EXCEPT ![p].open_by_line = obl,
                                                  ![p].steps = @ \o <<"erp_read", "rejected">>]
                       ELSE /\ pc' = [pc EXCEPT ![p] = "check"]
                            /\ UNCHANGED response
                            /\ loc' = [loc EXCEPT
                                 ![p].open_by_line = obl,
                                 ![p].to_post = v.to_post,
                                 ![p].date = today,
                                 ![p].op_hash = OpHash(r.user.sub, r.docEntry.n, loc[p].whs,
                                                       v.to_post, today, r.supplierRef),
                                 ![p].steps = @ \o <<"erp_read", "validated">>]

\* post_receipt, lines 193-202: the duplicate check
PostReceiptCheck(p, db) ==
    /\ pc[p] = "check"
    /\ UNCHANGED <<req, client, erp, receipts_log, today,
                   preferred_date_format, clientVars>>
    /\ LET found == CheckDuplicate(receipts_log, loc[p].op_hash, db)
       IN  /\ loc' = [loc EXCEPT ![p].steps =
                      Append(@, IF db = "ok" THEN "dup_check" ELSE "dup_check_failed")]
           /\ IF found = "raise" THEN Finish(p, Unhandled("psycopg.OperationalError"))
              ELSE IF found = "duplicate"
              THEN Finish(p, Resp(409, "DUPLICATE", "Operacion ya registrada", <<>>))
              ELSE /\ pc' = [pc EXCEPT ![p] = "post"]
                   /\ UNCHANGED response

\* A write step that goes on to the audit row whether post_grpo raised or not
PostReceiptPostSwallow(p, ans, body) ==
    /\ pc[p] = "post"
    /\ UNCHANGED <<req, receipts_log, today, preferred_date_format, clientVars>>
    /\ LET r == req[p]
           res == PostGrpo(client[p], r.docEntry.n, loc[p].whs, loc[p].to_post,
                           r.supplierRef, ans, body)
       IN  /\ client' = [client EXCEPT ![p] = res.client]
           /\ erp' = [erp EXCEPT ![p] = ErpAfter(erp[p], res.trace)]
           /\ pc' = [pc EXCEPT ![p] = "log"]
           /\ UNCHANGED response
           /\ loc' = [loc EXCEPT
                ![p].grpo_doc = body.DocEntry,
                ![p].posted = GrpoPayload(r.docEntry.n, loc[p].whs, loc[p].to_post,
                                          r.supplierRef).DocumentLines,
                ![p].document = GrpoPayload(r.docEntry.n, loc[p].whs, loc[p].to_post,
                                            r.supplierRef),
                ![p].steps = Append(@, IF res.kind # "ok" THEN "erp_write_failed"
                                       ELSE "erp_write")]

\* post_receipt, lines 204-206: the write to the ERP
PostReceiptPost(p, ans, body) ==
    /\ pc[p] = "post"
    /\ UNCHANGED <<req, receipts_log, today, preferred_date_format, clientVars>>
    /\ LET r == req[p]
           res == PostGrpo(client[p], r.docEntry.n, loc[p].whs, loc[p].to_post,
                           r.supplierRef, ans, body)
       IN  /\ client' = [client EXCEPT ![p] = res.client]
           /\ erp' = [erp EXCEPT ![p] = ErpAfter(erp[p], res.trace)]
           /\ IF res.kind # "ok"
              THEN /\ Finish(p, Unhandled(res.kind))
                   /\ loc' = [loc EXCEPT
                        ![p].document = GrpoPayload(r.docEntry.n, loc[p].whs,
                                                    loc[p].to_post, r.supplierRef),
                        ![p].steps = Append(@, "erp_write_failed")]
              ELSE /\ pc' = [pc EXCEPT ![p] = "log"]
                   /\ UNCHANGED response
                   /\ loc' = [loc EXCEPT
                        ![p].grpo_doc = body.DocEntry,
                        ![p].posted = GrpoPayload(r.docEntry.n, loc[p].whs, loc[p].to_post,
                                                  r.supplierRef).DocumentLines,
                        ![p].document = GrpoPayload(r.docEntry.n, loc[p].whs,
                                                    loc[p].to_post, r.supplierRef),
                        ![p].steps = Append(@, "erp_write")]

\* post_receipt, lines 208-251: the audit row, then the answer
PostReceiptLog(p, db) ==
    /\ pc[p] = "log"
    /\ UNCHANGED <<req, client, erp, today, preferred_date_format, clientVars>>
    /\ LET r == req[p]
           row == LogRow(r.docEntry.n, loc[p].whs, loc[p].to_post, r.user.sub,
                         loc[p].grpo_doc, loc[p].op_hash)
           ins == InsertLog(receipts_log, row, db)
       IN  /\ receipts_log' = ins.log
           /\ IF ins.raised
              THEN /\ Finish(p, Unhandled("psycopg.Error"))
                   /\ loc' = [loc EXCEPT ![p].steps = Append(@, "insert_failed")]
              ELSE /\ Finish(p, [Resp(201, "OK", "", <<>>) EXCEPT
                                   !.body = [grpoDocEntry |-> loc[p].grpo_doc,
                                             opHash |-> loc[p].op_hash]])
                   /\ loc' = [loc EXCEPT ![p].steps = @ \o <<"insert", "respond">>]

(***************************************************************************)
(* recepciones_api.list_orders and get_order                               *)
(***************************************************************************)
\* list_orders, lines 72-85, and get_open_purchase_orders, lines 212-221
ListOrdersBegin(p, r) ==
    /\ Accept(p, r)
    /\ erp' = [erp EXCEPT ![p] = NoErp]
    /\ UNCHANGED <<receipts_log, today, preferred_date_format, clientVars>>
    /\ LET whs == RequestedWhs(r)
           rejected ==
               IF ~r.page.isint \/ ~r.pageSize.isint
               THEN Unhandled("ValueError")
               ELSE IF ~Truthy(whs)
               THEN Resp(400, "VALIDATION", "No se pudo determinar el almacen", <<>>)
               ELSE IF ~user_can_access_whs(whs, r.user)
               THEN Resp(403, "FORBIDDEN", "Usuario sin acceso a almacen", <<>>)
               ELSE NoResponse
           c == NewClient(preferred_date_format)
       IN  IF rejected # NoResponse
           THEN /\ Finish(p, rejected)
                /\ loc' = [loc EXCEPT ![p] = NoLocals]
                /\ UNCHANGED client
           ELSE /\ pc' = [pc EXCEPT ![p] = "list"]
                /\ response' = [response EXCEPT ![p] = NoResponse]
                /\ client' = [client EXCEPT ![p] = c]
                /\ loc' = [loc EXCEPT ![p] =
                     [NoLocals EXCEPT
                        !.whs = whs,
                        !.formats_to_try = FormatsToTry(c, r.due_from, r.due_to),
                        !.idx = 1]]

\* get_open_purchase_orders, lines 224-292: one pass of the loop over the
\* formats, and list_orders, line 90
ListOrdersAttempt(p, ans, payload) ==
    /\ pc[p] = "list"
    /\ UNCHANGED <<req, receipts_log, today, clientVars>>
    /\ LET r == req[p]
           l == loc[p]
           fmt == l.formats_to_try[l.idx]
           present == DateFiltersPresent(r.due_from, r.due_to)
           params == ListParams(client[p], r.due_from, r.due_to, r.vendor, l.whs,
                                r.page.n, r.pageSize.n, fmt)
           out == Request(client[p], "GET", ans)
           remember == out.kind = "ok" /\ present /\ Truthy(fmt)
           answer == [kind |-> out.kind, status |-> out.status]
       IN  /\ erp' = [erp EXCEPT ![p] = ErpAfter(erp[p], out.trace)]
           /\ client' = [client EXCEPT ![p] =
                IF remember THEN [out.client EXCEPT !.date_format = fmt] ELSE out.client]
           /\ preferred_date_format' = IF remember THEN fmt ELSE preferred_date_format
           /\ IF ShouldRetry(present, out, l.idx, Len(l.formats_to_try))
              THEN /\ loc' = [loc EXCEPT ![p].idx = @ + 1,
                                         ![p].queries = Append(@, params),
                                         ![p].answers = Append(@, answer)]
                   /\ UNCHANGED <<pc, response>>
              ELSE /\ loc' = [loc EXCEPT ![p].queries = Append(@, params),
                                         ![p].answers = Append(@, answer),
                                         ![p].payload = IF out.kind = "ok" THEN payload
                                                        ELSE @]
                   /\ IF out.kind # "ok" THEN Finish(p, Unhandled(out.kind))
                      ELSE IF ListRaises(payload, l.whs) THEN Finish(p, Unhandled("ValueError"))
                      ELSE Finish(p, [Resp(200, "OK", "", <<>>) EXCEPT
                                        !.body = ListResult(payload, l.whs, r.page.n,
                                                            params.top)])

\* get_order, lines 95-109
GetOrder(p, r, ans, o) ==
    /\ Accept(p, r)
    /\ UNCHANGED <<receipts_log, today, preferred_date_format, clientVars>>
    /\ LET whs == RequestedWhs(r)
           c == NewClient(preferred_date_format)
           res == GetPurchaseOrder(c, r.docEntry.n, whs, ans, o)
           read == /\ Truthy(whs) /\ user_can_access_whs(whs, r.user)
                   /\ res.kind \in {"ok", "ValueError"}
       IN  /\ loc' = [loc EXCEPT ![p] =
                [NoLocals EXCEPT !.whs = whs,
                                 !.payload = IF read THEN o ELSE <<>>]]
           /\ IF ~Truthy(whs)
              THEN /\ Finish(p, Resp(400, "VALIDATION", "No se pudo determinar el almacen", <<>>))
                   /\ UNCHANGED client
                   /\ erp' = [erp EXCEPT ![p] = NoErp]
              ELSE IF ~user_can_access_whs(whs, r.user)
              THEN /\ Finish(p, Resp(403, "FORBIDDEN", "Usuario sin acceso a almacen", <<>>))
                   /\ UNCHANGED client
                   /\ erp' = [erp EXCEPT ![p] = NoErp]
              ELSE /\ client' = [client EXCEPT ![p] = res.client]
                   /\ erp' = [erp EXCEPT ![p] = ErpAfter(NoErp, res.trace)]
                   /\ IF res.kind # "ok" THEN Finish(p, Unhandled(res.kind))
                      ELSE IF res.value.lines = <<>>
                      THEN Finish(p, Resp(404, "NOT_FOUND", "La OC no tiene lineas abiertas", <<>>))
                      ELSE Finish(p, [Resp(200, "OK", "", <<>>) EXCEPT !.body = res.value])

(***************************************************************************)
(* SpecClient: one SapClient used for a sequence of calls while time passes*)
(***************************************************************************)
MaxCalls == 2

TickMinutes == 13

MaxClock == 26

ClientDocs ==
    {ErpDoc(7, <<ErpLine(0, Text("WH1"), Num(2), oq), ErpLine(1, Text("WH2"), Num(2), Num(1)),
                 ErpLine(2, Text("WH1"), Num(3), Num(2))>>) :
        oq \in {Num(1), Num(0), Null}}

NoCall == [op |-> "none", whs |-> None, kind |-> "none", status |-> "", trace |-> <<>>,
           body |-> <<>>, value |-> None, age |-> 0, before |-> NewClient(None),
           logins |-> <<>>]

\* The clock value of the session after a call: a successful login resets it
SessionAtAfter(out) ==
    IF \E i \in 1..Len(out.trace) :
          out.trace[i].ev = "login" /\ out.trace[i].status = "200"
    THEN now ELSE session_at

\* Age of the session when the first request of the call is sent
AgeAtFirstSend(out) ==
    IF out.trace # <<>> /\ out.trace[1].ev = "login" THEN 0 ELSE now - session_at

\* A call of the client: its arguments, the client as the call found it, the
\* answers the ERP gave to the logins of the call, the JSON body the ERP
\* answered with when the request was accepted, and its outcome
Called(op, whs, ans, body, out) ==
    /\ cl' = out.client
    /\ lastcall' = [op |-> op, whs |-> whs, kind |-> out.kind, status |-> out.status,
                    trace |-> out.trace,
                    body |-> IF out.kind \in {"ok", "ValueError"} THEN body ELSE <<>>,
                    value |-> out.value,
                    age |-> AgeAtFirstSend(out),
                    before |-> cl,
                    logins |-> SubSeq(ans.login, 1,
                                      Min(CountEv(out.trace, "login"), Len(ans.login)))]
    /\ session_at' = SessionAtAfter(out)
    /\ ncalls' = ncalls + 1
    /\ UNCHANGED <<now, handlerVars, preferred_date_format>>

ClientGetPurchaseOrder ==
    /\ ncalls < MaxCalls
    /\ \E ans \in Scripts(cl), o \in ClientDocs, whs \in {None, Text("WH1")} :
          Called("get_purchase_order", whs, ans, o,
                 GetPurchaseOrder(cl, o.DocEntry, whs, ans, o))

ClientPostGrpo ==
    /\ ncalls < MaxCalls
    /\ \E ans \in Scripts(cl), body \in GrpoBodies :
          Called("post_grpo", Text("WH1"), ans, body,
                 PostGrpo(cl, 7, Text("WH1"), <<[lineNum |-> 0, quantity |-> 1]>>,
                          None, ans, body))

Tick ==
    /\ now + TickMinutes <= MaxClock
    /\ now' = now + TickMinutes
    /\ UNCHANGED <<cl, lastcall, session_at, ncalls, handlerVars, preferred_date_format>>

InitClientVars ==
    /\ cl = NewClient(None)
    /\ lastcall = NoCall
    /\ now = 0
    /\ session_at = 0
    /\ ncalls = 0

InitClient == InitHandlers /\ InitClientVars

NextClient == ClientGetPurchaseOrder \/ ClientPostGrpo \/ Tick

SpecClient == InitClient /\ [][NextClient]_vars

(***************************************************************************)
(* Spec: one handler serving list, detail and receipt requests             *)
(***************************************************************************)
MaxLines == 2

\* The authenticated users (JWT claims sub and warehouses)
Ana == [sub |-> Text("ana"), warehouses |-> <<Text("WH1")>>]
Beto == [sub |-> Text("beto"), warehouses |-> <<>>]
Users == {Ana, Beto}

WhsCodes == {None, Text("WH1"), Text("WH2"), Text("None")}

\* The lines a receipt request may carry
ReqLine(ln, q) == [lineNum |-> ln, quantity |-> q, wellformed |-> TRUE]
Malformed == [lineNum |-> 0, quantity |-> 0, wellformed |-> FALSE]
ReqLines == {ReqLine(ln, q) : ln \in {0, 1}, q \in {-1, 0, 1, 2}} \cup {Malformed}
LineSeqs == UNION {[1..n -> ReqLines] : n \in 0..MaxLines}

PostRequest(u, d, w, sr, ls) ==
    [NoRequest EXCEPT !.op = "post", !.user = u, !.docEntry = d, !.whsCode = w,
                      !.supplierRef = sr, !.lines = ls]

\* Receipt requests: every caller, docEntry and warehouse with one line, and
\* every list of lines for the caller authorized for the warehouse
PostRequests ==
    {PostRequest(u, d, w, None, <<ReqLine(0, 1)>>) :
        u \in Users, d \in {JInt(7), JOther}, w \in WhsCodes}
    \cup {PostRequest(Ana, JInt(7), Text("WH1"), sr, ls) :
            sr \in {None, Text("REM-1")}, ls \in LineSeqs}

ListRequests ==
    {[NoRequest EXCEPT !.op = "list", !.user = u, !.whsCode = w, !.page = pg,
                       !.pageSize = JInt(20), !.due_from = df, !.vendor = <<>>] :
        u \in Users, w \in WhsCodes, pg \in {JInt(2), JOther},
        df \in {None, Text("2025-09-01")}}

DetailRequests ==
    {[NoRequest EXCEPT !.op = "detail", !.user = u, !.whsCode = w, !.docEntry = JInt(7)] :
        u \in Users, w \in WhsCodes}

\* The purchase order as the ERP returns it at the moment it is read
HandlerDocs ==
    {ErpDoc(7, <<ErpLine(0, Text("WH1"), Num(2), o0), ErpLine(1, w1, Num(2), Num(2))>>) :
        o0 \in {Null, Num(1), Num(2)}, w1 \in {Text("WH1"), Text("WH2")}}

\* The bodies to try with a script: a body is read only from a 2xx answer
DocsFor(c, ans) ==
    IF Request(c, "GET", ans).kind = "ok" THEN HandlerDocs
    ELSE {ErpDoc(7, <<>>)}

\* The purchase order as the ERP returns it to get_order: the quantities of
\* line 0 are numbers, null or absent, or non-numeric strings
DetailDocs ==
    {ErpDoc(7, <<ErpLine(0, Text("WH1"), q0, o0), ErpLine(1, Text("WH2"), Num(2), Num(2)),
                 ErpLine(2, Text("WH1"), Num(3), o2)>>) :
        q0 \in {Num(2), Null, Str}, o0 \in {Num(1), Null, Str}, o2 \in {Num(0), Num(2)}}

\* The bodies to try with a script: a body is read only from a 2xx answer
DetailDocsFor(c, ans) ==
    IF Request(c, "GET", ans).kind = "ok" THEN DetailDocs
    ELSE {ErpDoc(7, <<>>)}

\* The page of orders as the ERP returns it
ListBodies ==
    {[count |-> 3,
      value |-> <<[DocEntry |-> 9, DocNum |-> 90,
                   DocumentLines |-> <<ErpLine(0, Text("WH1"), Num(2), o0)>>],
                  [DocEntry |-> 8, DocNum |-> 80,
                   DocumentLines |-> <<ErpLine(0, Text("WH2"), Num(2), Num(2))>>],
                  [DocEntry |-> 7, DocNum |-> 70,
                   DocumentLines |-> <<ErpLine(0, Text("WH2"), Num(2), o1),
                                       ErpLine(1, Text("WH1"), Num(2), o2)>>]>>] :
        o0 \in {Num(0), Num(2), Null, Str}, o1 \in {Num(2), Str},
        o2 \in {Num(0), Num(1), Dec("0.5")}}

Init == InitHandlers /\ InitClientVars

RecvPost == pc[1] = "idle" /\ \E r \in PostRequests : PostReceiptBegin(1, r)
StepValidate ==
    /\ pc[1] = "validate"
    /\ \E ans \in HandlerScripts(client[1]) :
          \E o \in DocsFor(client[1], ans) : PostReceiptValidate(1, ans, o)
StepCheck == pc[1] = "check" /\ \E db \in CheckDbOutcomes : PostReceiptCheck(1, db)
StepPost ==
    /\ pc[1] = "post"
    /\ \E ans \in HandlerScripts(client[1]), body \in GrpoBodies :
          PostReceiptPost(1, ans, body)
StepLog == pc[1] = "log" /\ \E db \in LogDbOutcomes : PostReceiptLog(1, db)
RecvList == pc[1] = "idle" /\ \E r \in ListRequests : ListOrdersBegin(1, r)
StepList ==
    /\ pc[1] = "list"
    /\ \E ans \in HandlerScripts(client[1]), payload \in ListBodies :
          ListOrdersAttempt(1, ans, payload)
RecvDetail ==
    /\ pc[1] = "idle"
    /\ \E r \in DetailRequests, ans \in HandlerScripts(NewClient(None)) :
          \E o \in DetailDocsFor(NewClient(None), ans) : GetOrder(1, r, ans, o)

Next ==
    \/ RecvPost \/ StepValidate \/ StepCheck \/ StepPost \/ StepLog
    \/ RecvList \/ StepList \/ RecvDetail

Spec == Init /\ [][Next]_vars

(***************************************************************************)
(* SpecIdem: two receipt requests of one caller handled one after the      *)
(* other, possibly on different days                                       *)
(***************************************************************************)
MaxDay == 2

\* The lists of lines of the two requests
IdemLines ==
    {<<ReqLine(0, 1)>>, <<ReqLine(0, 2)>>,
     <<ReqLine(0, 1), ReqLine(1, 1)>>, <<ReqLine(1, 1), ReqLine(0, 1)>>,
     <<ReqLine(0, 1), ReqLine(0, 2)>>, <<ReqLine(0, 2), ReqLine(0, 1)>>}

IdemRequests ==
    {PostRequest(Ana, JInt(7), Text("WH1"), sr, ls) : sr \in {None, Text("REM-1"), Text("None")}, ls \in IdemLines}

\* The ERP accepts every login and answers a request with 200 or 500
IdemScripts(c) == ScriptsOver(c, {DefaultLogin}, {"200", "500"})

\* The purchase order as the ERP returns it
IdemDocs ==
    {ErpDoc(7, <<ErpLine(0, Text("WH1"), Num(2), o0), ErpLine(1, Text("WH1"), Num(2), Num(2))>>) :
        o0 \in {Num(1), Num(2)}}

IdemRecvFirst == pc[1] = "idle" /\ \E r \in IdemRequests : PostReceiptBegin(1, r)

IdemRecvSecond ==
    /\ pc[1] = "done" /\ pc[2] = "idle"
    /\ \E r \in IdemRequests : PostReceiptBegin(2, r)

\* Midnight passes between the two requests
IdemNextDay ==
    /\ pc[1] = "done" /\ pc[2] = "idle"
    /\ today < MaxDay
    /\ today' = today + 1
    /\ UNCHANGED <<pc, req, client, loc, erp, response, receipts_log,
                   preferred_date_format, clientVars>>

IdemValidate ==
    \E p \in Procs :
        /\ pc[p] = "validate"
        /\ \E ans \in IdemScripts(client[p]), o \in IdemDocs : PostReceiptValidate(p, ans, o)

IdemCheck ==
    \E p \in Procs : pc[p] = "check" /\ \E db \in CheckDbOutcomes : PostReceiptCheck(p, db)

IdemPost ==
    \E p \in Procs :
        /\ pc[p] = "post"
        /\ \E ans \in IdemScripts(client[p]), body \in GrpoBodies : PostReceiptPost(p, ans, body)

IdemLog ==
    \E p \in Procs : pc[p] = "log" /\ \E db \in LogDbOutcomes : PostReceiptLog(p, db)

NextIdem ==
    \/ IdemRecvFirst \/ IdemRecvSecond \/ IdemNextDay
    \/ IdemValidate \/ IdemCheck \/ IdemPost \/ IdemLog

SpecIdem == Init /\ [][NextIdem]_vars

(***************************************************************************)
(* SpecConc: two receipt requests handled concurrently; the ERP and the    *)
(* store answer every call successfully                                    *)
(***************************************************************************)
ConcRequests ==
    {PostRequest(Ana, JInt(7), Text("WH1"), None, ls) :
        ls \in {<<ReqLine(0, 1)>>, <<ReqLine(0, 2)>>, <<ReqLine(0, 1), ReqLine(1, 1)>>}}

ConcScripts(c) == ScriptsOver(c, {DefaultLogin}, {"200"})

ConcDoc == ErpDoc(7, <<ErpLine(0, Text("WH1"), Num(2), Num(2)), ErpLine(1, Text("WH1"), Num(2), Num(2))>>)

ConcRecv == \E p \in Procs : pc[p] = "idle" /\ \E r \in ConcRequests : PostReceiptBegin(p, r)

ConcValidate ==
    \E p \in Procs :
        /\ pc[p] = "validate"
        /\ \E ans \in ConcScripts(client[p]) : PostReceiptValidate(p, ans, ConcDoc)

ConcCheck == \E p \in Procs : pc[p] = "check" /\ PostReceiptCheck(p, "ok")

ConcPost ==
    \E p \in Procs :
        /\ pc[p] = "post"
        /\ \E ans \in ConcScripts(client[p]), body \in GrpoBodies : PostReceiptPost(p, ans, body)

ConcLog == \E p \in Procs : pc[p] = "log" /\ PostReceiptLog(p, "ok")

NextConc == ConcRecv \/ ConcValidate \/ ConcCheck \/ ConcPost \/ ConcLog

SpecConc == Init /\ [][NextConc]_vars

(***************************************************************************)
(* SpecList: two calls of get_open_purchase_orders one after the other,    *)
(* the second on the client of the first or on a client constructed after  *)
(* the first call                                                          *)
(***************************************************************************)
\* get_open_purchase_orders, lines 201-221, called on client c with the
\* arguments of r
GetOpenPurchaseOrdersBegin(p, c, r) ==
    /\ Accept(p, r)
    /\ pc' = [pc EXCEPT ![p] = "list"]
    /\ client' = [client EXCEPT ![p] = c]
    /\ erp' = [erp EXCEPT ![p] = NoErp]
    /\ loc' = [loc EXCEPT ![p] =
         [NoLocals EXCEPT
            !.whs = r.whsCode,
            !.formats_to_try = FormatsToTry(c, r.due_from, r.due_to),
            !.idx = 1]]
    /\ UNCHANGED <<response, receipts_log, today, preferred_date_format, clientVars>>

\* The arguments of the calls: with and without dates, for one warehouse
ListCalls ==
    {[NoRequest EXCEPT !.op = "list", !.whsCode = Text("WH1"), !.page = JInt(1),
                       !.pageSize = JInt(20), !.due_from = df, !.due_to = dt,
                       !.vendor = <<>>] :
        df \in {None, Text("2025-09-01")}, dt \in {None, Text("2025-09-30")}}

\* The ERP accepts every login and answers a request with 200, 400, 401 or 500
ListScripts(c) == ScriptsOver(c, {DefaultLogin}, {"200", "400", "401", "500"})

\* The page the ERP returns to every accepted request: no orders
EmptyPage == [count |-> 0, value |-> <<>>]

ListFirst ==
    /\ pc[1] = "idle"
    /\ \E r \in ListCalls :
          GetOpenPurchaseOrdersBegin(1, NewClient(preferred_date_format), r)

ListSecondSameClient ==
    /\ pc[1] = "done" /\ pc[2] = "idle"
    /\ \E r \in ListCalls : GetOpenPurchaseOrdersBegin(2, client[1], r)

ListSecondNewClient ==
    /\ pc[1] = "done" /\ pc[2] = "idle"
    /\ \E r \in ListCalls :
          GetOpenPurchaseOrdersBegin(2, NewClient(preferred_date_format), r)

ListAttempt ==
    \E p \in Procs :
        /\ pc[p] = "list"
        /\ \E ans \in ListScripts(client[p]) : ListOrdersAttempt(p, ans, EmptyPage)

NextList == ListFirst \/ ListSecondSameClient \/ ListSecondNewClient \/ ListAttempt

SpecList == Init /\ [][NextList]_vars

(***************************************************************************)
(* SpecShared: two threads call _request on one SapClient, the case of a   *)
(* caller that shares a client; the routes of recepciones_api build one    *)
(* client per request. login() holds no lock of its own; the cookie jar of *)
(* the requests.Session has one, taken by set_cookie and by                *)
(* extract_cookies, not by clear() and not by the reading of the cookies   *)
(* for a request, which goes through the dicts of the jar one at a time    *)
(* while the other thread writes. A write is one step: with two threads a  *)
(* reader tells no more of it than whether it came before each reading    *)
(***************************************************************************)
\* The ERP accepts every login with a new session and a routing cookie
SharedLoginAnswers == {LoginOk(1, Text("node1")), LoginOk(2, Text("node2"))}

\* A request as it left the client: method, the ERP's status, the cookies sent
Sent(method, status, jar) == [ev |-> method, status |-> status, jar |-> jar]

\* Where a thread goes on after login(): the request of line 124 after
\* ensure_session, that of line 138 after the re-login, each of which
\* begins by reading the cookies of the jar
AfterLogin(p) == "read_jar"

RECURSIVE Distinct(_)
\* The values of a sequence, each once, in the order of first occurrence
Distinct(seq) ==
    IF seq = <<>> THEN <<>>
    ELSE LET front == Distinct(SubSeq(seq, 1, Len(seq) - 1))
             last == seq[Len(seq)]
         IN  IF \E i \in 1..Len(front) : front[i] = last THEN front
             ELSE Append(front, last)

\* list(mapping.values()) of the jar's dict: its domains in order
Domains(jar) == Distinct([i \in 1..Len(jar) |-> jar[i].domain])

\* list(mapping.values()) of the dict of domain d: its paths in order
Paths(jar, d) ==
    LET of_d == SelectSeq(jar, LAMBDA k : k.domain = d)
    IN  Distinct([i \in 1..Len(of_d) |-> of_d[i].path])

\* list(mapping.values()) of the dict of path pa of domain d: its cookies
CookiesAt(jar, d, pa) ==
    {jar[i] : i \in {j \in 1..Len(jar) : jar[j].domain = d /\ jar[j].path = pa}}

\* Thread p is inside the reading of the jar for a request, past the
\* reading of which dict the jar holds
Reading(p) == pc[p] \in {"read_domain", "read_path"}

\* The dict thread p reads: the jar's, or what the jar held when a clear()
\* of the other thread replaced it
ReadView(p) == IF loc[p].rd.live THEN cl.cookies ELSE loc[p].rd.old

\* The send a completed reading of the jar belongs to
AfterRead(p) == IF erp[p].reads = 0 THEN "send" ELSE "resend"

SharedUnchanged ==
    UNCHANGED <<req, client, response, receipts_log, today, preferred_date_format,
                lastcall, now, session_at, ncalls>>

\* Thread p is inside the jar's extract_cookies, which holds the lock of the
\* jar from before the first cookie of an answer to after the last
HoldsJarLock(p) == pc[p] \in {"store_ref", "store"}

\* No thread holds the lock of the jar
JarLockFree == \A q \in Procs : ~HoldsJarLock(q)

\* Thread p is inside set_cookie between reading which dict the jar holds
\* and writing the cookie into that dict
HoldsJarRef(p) == pc[p] \in {"store", "write_b1session", "write_routeid"}

\* set_cookie: the cookie goes into the dict read before; a dict that a
\* clear() replaced since is no longer the jar's, and the write is lost
WriteCookie(p, ck) == IF loc[p].stale THEN cl.cookies ELSE SetCookie(cl.cookies, ck)

\* _request, line 115, and ensure_session: login only without a session id
SharedEnsureSession(p) ==
    /\ pc[p] = "idle"
    /\ pc' = [pc EXCEPT ![p] = IF cl.session_id = NoSession THEN "login" ELSE "read_jar"]
    /\ UNCHANGED <<cl, loc, erp>>
    /\ SharedUnchanged

\* login, lines 84-88: the POST /Login is sent and answered; the
\* requests.Session has the cookies of the answer to store
SharedLoginPost(p, a) ==
    /\ pc[p] = "login"
    /\ pc' = [pc EXCEPT ![p] = "extract"]
    /\ loc' = [loc EXCEPT ![p].payload = a, ![p].to_store = AnswerCookies(a)]
    /\ erp' = [erp EXCEPT ![p].logins = @ + 1]
    /\ UNCHANGED cl
    /\ SharedUnchanged

\* login, line 84, inside self.s.post: extract_cookies takes the lock of the
\* jar, waiting while another thread holds it; an answer without cookies
\* releases it at once
SharedExtractAcquire(p) ==
    /\ pc[p] = "extract"
    /\ JarLockFree
    /\ pc' = [pc EXCEPT ![p] = IF loc[p].to_store = {} THEN "clear" ELSE "store_ref"]
    /\ UNCHANGED <<cl, loc, erp>>
    /\ SharedUnchanged

\* login, line 84, inside self.s.post: set_cookie reads which dict the jar
\* holds, for the next cookie of the answer
SharedStoreRef(p) ==
    /\ pc[p] = "store_ref"
    /\ pc' = [pc EXCEPT ![p] = "store"]
    /\ loc' = [loc EXCEPT ![p].stale = FALSE]
    /\ UNCHANGED <<cl, erp>>
    /\ SharedUnchanged

\* login, line 84, inside self.s.post: one cookie of the answer is written,
\* in the order of the ERP's Set-Cookie headers, which is the ERP's choice;
\* after the last the lock is released
SharedStoreCookie(p, ck) ==
    /\ pc[p] = "store"
    /\ ck \in loc[p].to_store
    /\ cl' = [cl EXCEPT !.cookies = WriteCookie(p, ck)]
    /\ loc' = [loc EXCEPT ![p].to_store = @ \ {ck}, ![p].stale = FALSE]
    /\ pc' = [pc EXCEPT ![p] = IF loc[p].to_store = {ck} THEN "clear" ELSE "store_ref"]
    /\ UNCHANGED erp
    /\ SharedUnchanged

\* login, line 95: self.s.cookies.clear() gives the jar a new, empty dict
\* without taking the lock; a thread that read the old dict writes into it,
\* and a thread reading the old dict for a request goes on reading it
SharedClearCookies(p) ==
    /\ pc[p] = "clear"
    /\ pc' = [pc EXCEPT ![p] = "set_b1session"]
    /\ cl' = [cl EXCEPT !.cookies = <<>>]
    /\ loc' = [q \in Procs |->
                 IF q # p /\ HoldsJarRef(q) THEN [loc[q] EXCEPT !.stale = TRUE]
                 ELSE IF q # p /\ Reading(q) /\ loc[q].rd.live
                 THEN [loc[q] EXCEPT !.rd.live = FALSE, !.rd.old = cl.cookies]
                 ELSE loc[q]]
    /\ UNCHANGED erp
    /\ SharedUnchanged

\* login, lines 96-97: cookies.set builds the session cookie and set_cookie
\* reads which dict the jar holds
SharedSetB1SessionRef(p) ==
    /\ pc[p] = "set_b1session"
    /\ pc' = [pc EXCEPT ![p] = IF loc[p].payload.sid # NoSession
                               THEN "write_b1session" ELSE "set_routeid"]
    /\ loc' = [loc EXCEPT ![p].stale = FALSE]
    /\ UNCHANGED <<cl, erp>>
    /\ SharedUnchanged

\* login, lines 96-97: set_cookie takes the lock, waiting while another
\* thread holds it, writes the session cookie and releases the lock
SharedSetB1Session(p) ==
    /\ pc[p] = "write_b1session"
    /\ JarLockFree
    /\ pc' = [pc EXCEPT ![p] = "set_routeid"]
    /\ cl' = [cl EXCEPT !.cookies =
                WriteCookie(p, Cookie("B1SESSION", loc[p].payload.sid,
                                      CookiePath, ClientDomain))]
    /\ loc' = [loc EXCEPT ![p].stale = FALSE]
    /\ UNCHANGED erp
    /\ SharedUnchanged

\* login, lines 98-100: cookies.set builds the routing cookie and set_cookie
\* reads which dict the jar holds
SharedSetRouteIdRef(p) ==
    /\ pc[p] = "set_routeid"
    /\ pc' = [pc EXCEPT ![p] = IF loc[p].payload.route # None
                               THEN "write_routeid" ELSE "set_session_id"]
    /\ loc' = [loc EXCEPT ![p].stale = FALSE]
    /\ UNCHANGED <<cl, erp>>
    /\ SharedUnchanged

\* login, lines 98-100: set_cookie takes the lock, waiting while another
\* thread holds it, writes the routing cookie and releases the lock
SharedSetRouteId(p) ==
    /\ pc[p] = "write_routeid"
    /\ JarLockFree
    /\ pc' = [pc EXCEPT ![p] = "set_session_id"]
    /\ cl' = [cl EXCEPT !.cookies =
                WriteCookie(p, Cookie("ROUTEID", loc[p].payload.route,
                                      "/", ClientDomain))]
    /\ loc' = [loc EXCEPT ![p].stale = FALSE]
    /\ UNCHANGED erp
    /\ SharedUnchanged

\* login, line 101: self._session_id = sid, and login() returns: the answer
\* it held is gone
SharedSetSessionId(p) ==
    /\ pc[p] = "set_session_id"
    /\ pc' = [pc EXCEPT ![p] = AfterLogin(p)]
    /\ cl' = [cl EXCEPT !.session_id = loc[p].payload.sid]
    /\ loc' = [loc EXCEPT ![p].payload = <<>>]
    /\ UNCHANGED erp
    /\ SharedUnchanged

\* _request, lines 124 and 138, inside self.s.request: the Session reads the
\* cookies of the jar for the request, without the lock and one dict at a
\* time; first which dict the jar holds, and the domains in it
SharedReadJar(p) ==
    /\ pc[p] = "read_jar"
    /\ LET doms == Domains(cl.cookies)
       IN  /\ loc' = [loc EXCEPT ![p].rd = [NoRead EXCEPT !.doms = doms]]
           /\ pc' = [pc EXCEPT ![p] = IF doms = <<>> THEN AfterRead(p) ELSE "read_domain"]
    /\ UNCHANGED <<cl, erp>>
    /\ SharedUnchanged

\* _request, lines 124 and 138, inside self.s.request: the paths that the
\* dict of the next domain holds now
SharedReadDomain(p) ==
    /\ pc[p] = "read_domain"
    /\ LET d == Head(loc[p].rd.doms)
       IN  loc' = [loc EXCEPT ![p].rd.doms = Tail(@), ![p].rd.dom = d,
                              ![p].rd.paths = Paths(ReadView(p), d)]
    /\ pc' = [pc EXCEPT ![p] = "read_path"]
    /\ UNCHANGED <<cl, erp>>
    /\ SharedUnchanged

\* _request, lines 124 and 138, inside self.s.request: the cookies that the
\* dict of the next path holds now; after the last path of the last domain
\* the reading is complete
SharedReadPath(p) ==
    /\ pc[p] = "read_path"
    /\ LET rd == loc[p].rd
           got == rd.got \cup CookiesAt(ReadView(p), rd.dom, Head(rd.paths))
           rest == Tail(rd.paths)
       IN  IF rest # <<>>
           THEN /\ loc' = [loc EXCEPT ![p].rd.paths = rest, ![p].rd.got = got]
                /\ pc' = pc
           ELSE IF rd.doms # <<>>
           THEN /\ loc' = [loc EXCEPT ![p].rd.paths = rest, ![p].rd.got = got]
                /\ pc' = [pc EXCEPT ![p] = "read_domain"]
           ELSE /\ loc' = [loc EXCEPT ![p].rd = [NoRead EXCEPT !.got = got]]
                /\ pc' = [pc EXCEPT ![p] = AfterRead(p)]
    /\ UNCHANGED <<cl, erp>>
    /\ SharedUnchanged

\* _request, line 124: the first send leaves with the cookies read, and is
\* answered
SharedSend(p, s) ==
    /\ pc[p] = "send"
    /\ pc' = [pc EXCEPT ![p] = "send_extract"]
    /\ erp' = [erp EXCEPT ![p].reads = @ + 1,
                          ![p].trace = Append(@, Sent("GET", s, loc[p].rd.got))]
    /\ loc' = [loc EXCEPT ![p].rd = NoRead]
    /\ UNCHANGED cl
    /\ SharedUnchanged

\* _request, lines 124-136: still inside self.s.request, extract_cookies
\* takes the lock of the jar for the answer, which sets no cookie, waiting
\* while another thread holds it; a 401 then leads to login()
SharedSendExtract(p) ==
    /\ pc[p] = "send_extract"
    /\ JarLockFree
    /\ pc' = [pc EXCEPT ![p] =
                IF erp[p].trace[Len(erp[p].trace)].status = "401" THEN "login" ELSE "done"]
    /\ UNCHANGED <<cl, loc, erp>>
    /\ SharedUnchanged

\* _request, line 138: the send after the re-login leaves with the cookies
\* read, and is answered
SharedResend(p, s) ==
    /\ pc[p] = "resend"
    /\ pc' = [pc EXCEPT ![p] = "resend_extract"]
    /\ erp' = [erp EXCEPT ![p].reads = @ + 1,
                          ![p].trace = Append(@, Sent("GET", s, loc[p].rd.got))]
    /\ loc' = [loc EXCEPT ![p].rd = NoRead]
    /\ UNCHANGED cl
    /\ SharedUnchanged

\* _request, lines 138-140: extract_cookies of the second answer, then
\* raise_for_status or the return
SharedResendExtract(p) ==
    /\ pc[p] = "resend_extract"
    /\ JarLockFree
    /\ pc' = [pc EXCEPT ![p] = "done"]
    /\ UNCHANGED <<cl, loc, erp>>
    /\ SharedUnchanged

NextShared ==
    \E p \in Procs :
        \/ SharedEnsureSession(p)
        \/ \E a \in SharedLoginAnswers : SharedLoginPost(p, a)
        \/ SharedExtractAcquire(p)
        \/ SharedStoreRef(p)
        \/ \E ck \in loc[p].to_store : SharedStoreCookie(p, ck)
        \/ SharedClearCookies(p)
        \/ SharedSetB1SessionRef(p)
        \/ SharedSetB1Session(p)
        \/ SharedSetRouteIdRef(p)
        \/ SharedSetRouteId(p)
        \/ SharedSetSessionId(p)
        \/ SharedReadJar(p)
        \/ SharedReadDomain(p)
        \/ SharedReadPath(p)
        \/ \E s \in {"200", "401"} : SharedSend(p, s)
        \/ SharedSendExtract(p)
        \/ \E s \in {"200", "401"} : SharedResend(p, s)
        \/ SharedResendExtract(p)

SpecShared == Init /\ [][NextShared]_vars

(***************************************************************************)
(* SpecQuery: get_open_purchase_orders called with every combination of    *)
(* page, page size, due date, vendor and warehouse, then called again with *)
(* the same arguments and the other choice of warehouse                    *)
(***************************************************************************)
\* The page numbers and page sizes of the calls
QueryPages == {-1, 0, 1, 3}
QueryPageSizes == {-5, 0, 20, 100, 101}

\* The vendor codes of the calls, as their characters
QueryVendors == {<<>>, <<"V", "1">>, <<"'">>, <<"O", "'", "B">>, <<"'", "'", "X">>}

\* The arguments of the calls
QueryCalls ==
    {[NoRequest EXCEPT !.op = "list", !.whsCode = w, !.page = JInt(pg),
                       !.pageSize = JInt(ps), !.due_from = df, !.vendor = v] :
        w \in {None, Text("WH1")}, pg \in QueryPages, ps \in QueryPageSizes,
        df \in {None, Text("2025-09-01")}, v \in QueryVendors}

\* The ERP accepts every login and answers a request with 200 or 400
QueryScripts(c) == ScriptsOver(c, {DefaultLogin}, {"200", "400"})

QueryFirst ==
    /\ pc[1] = "idle"
    /\ \E r \in QueryCalls :
          GetOpenPurchaseOrdersBegin(1, NewClient(preferred_date_format), r)

QuerySecondOtherWhs ==
    /\ pc[1] = "done" /\ pc[2] = "idle"
    /\ GetOpenPurchaseOrdersBegin(2, NewClient(preferred_date_format),
          [req[1] EXCEPT !.whsCode = IF req[1].whsCode = None THEN Text("WH1") ELSE None])

QueryAttempt ==
    \E p \in Procs :
        /\ pc[p] = "list"
        /\ \E ans \in QueryScripts(client[p]) : ListOrdersAttempt(p, ans, EmptyPage)

NextQuery == QueryFirst \/ QuerySecondOtherWhs \/ QueryAttempt

SpecQuery == Init /\ [][NextQuery]_vars

(***************************************************************************)
(* Properties of the transport, checked under SpecClient on the interactions *)
(* of the last call (lastcall.trace)                                        *)
(***************************************************************************)
IsSend(e) == e.ev \in {"GET", "POST"}

\* Positions of the sends of the original request in a trace
Sends(t) == {i \in 1..Len(t) : IsSend(t[i])}

\* Position of the first send, 0 when nothing was sent
FirstSend(t) == IF Sends(t) = {} THEN 0
                ELSE CHOOSE i \in Sends(t) : \A j \in Sends(t) : i <= j

\* Position of the first send answered 401, 0 when there is none
First401(t) ==
    LET u == {i \in Sends(t) : t[i].status = "401"}
    IN  IF u = {} THEN 0 ELSE CHOOSE i \in u : \A j \in u : i <= j

\* What follows position i in a trace
After(t, i) == SubSeq(t, i + 1, Len(t))

\* C7: when a send of a call is answered 401, exactly one re-login follows;
\* after a re-login that succeeds the original request is sent exactly once
\* more and nothing else happens: the call succeeds when that retry is
\* answered 2xx, and when it is answered 401 again the call raises the 401
\* without another login or send
C7_OneReloginOneRetry ==
    LET t == lastcall.trace
        i == First401(t)
        a == After(t, i)
    IN  i # 0 =>
          /\ a # <<>> /\ a[1].ev = "login"
          /\ CountEv(a, "login") = 1
          /\ CountEv(a, "sleep") = 0
          /\ a[1].status = "200" =>
                /\ Len(a) = 2
                /\ a[2].ev = t[i].ev
                /\ (a[2].status = "200" => lastcall.kind = "ok")
                /\ (a[2].status = "401" =>
                       lastcall.kind = "HTTPError" /\ lastcall.status = "401")

\* C7 witness: a call answered 401, then a re-login and a retry answered 401
\* again, ended with the 401 raised
C7_Witness ==
    LET t == lastcall.trace
        i == First401(t)
    IN  /\ i # 0
        /\ Len(t) = i + 2
        /\ t[i + 1] = Ev("login", "200")
        /\ t[i + 2].status = "401"
        /\ lastcall.kind = "HTTPError"

\* C8: when the first send of a call fails in the transport, one backoff and
\* one re-send follow; a transport failure of the re-send ends the call with
\* that failure, and no call backs off twice
C8_OneBackoffOneResend ==
    LET t == lastcall.trace
        i == FirstSend(t)
    IN  (i # 0 /\ t[i].status = NET) =>
          /\ Len(t) >= i + 2
          /\ t[i + 1].ev = "sleep"
          /\ t[i + 2].ev = t[i].ev
          /\ CountEv(t, "sleep") = 1
          /\ t[i + 2].status = NET =>
                Len(t) = i + 2 /\ lastcall.kind = "TransportError"
          /\ t[i + 2].status = "200" => Len(t) = i + 2 /\ lastcall.kind = "ok"

\* C8 witness: a first send that failed in the transport and a re-send that
\* failed too, raised to the caller
C8_Witness ==
    LET t == lastcall.trace
        i == FirstSend(t)
    IN  /\ i # 0 /\ t[i].status = NET
        /\ Len(t) = i + 2
        /\ t[i + 2].status = NET
        /\ lastcall.kind = "TransportError"

\* C9: no request of a call is sent with a session older than 25 minutes
\* (lastcall.age is the age of the session when the call sent its first
\* request, 0 when the call logged in first)
C9_NoStaleSession ==
    (lastcall.op # "none" /\ FirstSend(lastcall.trace) # 0) => lastcall.age <= 25

\* C9 witness of the failing case: a call that sent its request without any
\* login on a session 26 minutes old
C9_StaleCall ==
    /\ lastcall.op # "none"
    /\ lastcall.age > 25
    /\ CountEv(lastcall.trace, "login") = 0
    /\ FirstSend(lastcall.trace) = 1

(***************************************************************************)
(* Properties of the handlers, checked under Spec                          *)
(***************************************************************************)
\* The request asks for a warehouse outside the caller's authorized set
Unauthorized(r) ==
    /\ r.op # "none"
    /\ Truthy(RequestedWhs(r))
    /\ \A i \in 1..Len(r.user.warehouses) : r.user.warehouses[i] # RequestedWhs(r)

\* The request is malformed in a field its handler reads before the warehouse
MalformedBeforeAccessCheck(r) ==
    \/ r.op = "post" /\ ~r.docEntry.isint
    \/ r.op = "list" /\ (~r.page.isint \/ ~r.pageSize.isint)

\* C3: while one receipt request is handled the write POST is sent to the
\* ERP at most once
C3_WriteSentAtMostOnce == \A p \in Procs : erp[p].writes <= 1

\* C3, the failing case: a request during which the write was sent again
C3_WriteResent == req[1].op = "post" /\ erp[1].writes >= 2

\* C4 as stated: every request for a warehouse outside the caller's set is
\* answered FORBIDDEN and makes no ERP call
C4_AlwaysForbidden ==
    \A p \in Procs : Unauthorized(req[p]) =>
        /\ response[p].code = "FORBIDDEN"
        /\ erp[p] = NoErp

\* C4, amended: every request for a warehouse outside the caller's set is
\* rejected at once without any ERP call (login, read or write); the error
\* is FORBIDDEN unless the request is malformed in a field read before the
\* warehouse: a non-integer docEntry of a receipt gives VALIDATION, a
\* non-integer page or pageSize of a list gives the unhandled-error 500
C4_UnauthorizedRejected ==
    \A p \in Procs : Unauthorized(req[p]) =>
        /\ pc[p] = "done"
        /\ erp[p] = NoErp
        /\ response[p].status >= 400
        /\ ~MalformedBeforeAccessCheck(req[p]) =>
              response[p].status = 403 /\ response[p].code = "FORBIDDEN"
        /\ (req[p].op = "post" /\ MalformedBeforeAccessCheck(req[p])) =>
              response[p].status = 400 /\ response[p].code = "VALIDATION"
        /\ (req[p].op = "list" /\ MalformedBeforeAccessCheck(req[p])) =>
              response[p].status = 500

\* C4 witness: a well-formed receipt request for a warehouse the caller has
\* no access to, answered FORBIDDEN
C4_Witness ==
    /\ req[1].op = "post" /\ Unauthorized(req[1])
    /\ req[1].docEntry.isint
    /\ response[1].code = "FORBIDDEN"

\* The open quantities of the request were fetched from the ERP
FetchedOpenQty(p) ==
    req[p].op = "post" /\ \E i \in 1..Len(loc[p].steps) : loc[p].steps[i] = "erp_read"

\* The open quantity observed for a line number, 0 for an unknown line
ObservedOpen(p, ln) ==
    IF ln \in DOMAIN loc[p].open_by_line THEN loc[p].open_by_line[ln] ELSE 0

\* The line asks for more than the observed open quantity
OverOpen(p, l) == l.wellformed /\ l.quantity > ObservedOpen(p, l.lineNum)

\* The line cannot be accepted
Unacceptable(p, l) == ~l.wellformed \/ l.quantity < 0 \/ OverOpen(p, l)

\* The first line of the request that cannot be accepted
FirstUnacceptable(p) ==
    CHOOSE i \in 1..Len(req[p].lines) :
        /\ Unacceptable(p, req[p].lines[i])
        /\ \A j \in 1..(i - 1) : ~Unacceptable(p, req[p].lines[j])

\* The VALIDATION answer that names line l, its quantity and its open quantity
NamesOverOpen(p, l) ==
    /\ response[p].msg = "Cantidad > OpenQty en linea"
    /\ response[p].args = <<l.quantity, ObservedOpen(p, l.lineNum), l.lineNum>>

\* C5 as stated: a request with a line over its open quantity is rejected
\* with a VALIDATION error naming such a line, its quantity and its open
\* quantity, and nothing is written to the ERP
C5_NamesOverOpenLine ==
    \A p \in Procs :
        (FetchedOpenQty(p) /\ \E i \in 1..Len(req[p].lines) : OverOpen(p, req[p].lines[i])) =>
            /\ response[p].code = "VALIDATION"
            /\ erp[p].writes = 0
            /\ \E i \in 1..Len(req[p].lines) :
                  OverOpen(p, req[p].lines[i]) /\ NamesOverOpen(p, req[p].lines[i])

\* C5, amended: a request with a line over its open quantity is rejected
\* with 400 VALIDATION as soon as its lines are validated and post_grpo is
\* never invoked; the error is the one of the first unacceptable line, so
\* it names line number, quantity and open quantity when no malformed or
\* negative line precedes the first line over its open quantity
C5_OverOpenRejected ==
    \A p \in Procs :
        (FetchedOpenQty(p) /\ \E i \in 1..Len(req[p].lines) : OverOpen(p, req[p].lines[i])) =>
            /\ pc[p] = "done"
            /\ response[p].status = 400 /\ response[p].code = "VALIDATION"
            /\ erp[p].writes = 0
            /\ LET l == req[p].lines[FirstUnacceptable(p)]
               IN  IF OverOpen(p, l) THEN NamesOverOpen(p, l)
                   ELSE response[p].msg \in {"lines: formato invalido",
                                              "Cantidad negativa en linea"}

\* C5 witness: a two-line request whose second line is over its open
\* quantity, rejected with the error naming that line
C5_Witness ==
    /\ FetchedOpenQty(1)
    /\ Len(req[1].lines) = 2
    /\ ~Unacceptable(1, req[1].lines[1])
    /\ OverOpen(1, req[1].lines[2])
    /\ NamesOverOpen(1, req[1].lines[2])
    /\ erp[1].writes = 0

\* C10: a receipt answered 201 with a fingerprint has a row with that
\* fingerprint in receipts_log, and a receipt written to the ERP whose row
\* the store did not take is not answered 201
C10_SuccessIsRecorded ==
    \A p \in Procs :
        /\ (req[p].op = "post" /\ response[p].status = 201) =>
               \E i \in 1..Len(receipts_log) :
                   receipts_log[i].op_hash = response[p].body.opHash
        /\ (req[p].op = "post" /\ pc[p] = "done" /\ erp[p].writes >= 1
              /\ ~\E i \in 1..Len(receipts_log) : receipts_log[i].op_hash = loc[p].op_hash)
              => response[p].status # 201

\* C10 witness: a receipt was written to the ERP and answered 201, and the
\* one row of receipts_log carries the fingerprint of the answer
C10_Recorded ==
    /\ req[1].op = "post" /\ response[1].status = 201
    /\ erp[1].writes >= 1
    /\ response[1].body.opHash = loc[1].op_hash
    /\ loc[1].op_hash # NullHash
    /\ Len(receipts_log) = 1 /\ receipts_log[1].op_hash = response[1].body.opHash

\* C10 witness of the failure: the receipt was written to the ERP, the store
\* refused the row, and the answer is the 500 of the unhandled error
C10_NotRecordedNotAccepted ==
    /\ req[1].op = "post" /\ pc[1] = "done"
    /\ erp[1].writes >= 1
    /\ receipts_log = <<>>
    /\ response[1].status = 500

(***************************************************************************)
(* Properties of two requests, checked under SpecIdem and SpecConc         *)
(***************************************************************************)
\* Both requests carry the same actor, docEntry, warehouse and lines
SameOperation(a, b) ==
    /\ a.op = "post" /\ b.op = "post"
    /\ a.user.sub = b.user.sub
    /\ a.docEntry = b.docEntry
    /\ RequestedWhs(a) = RequestedWhs(b)
    /\ a.lines = b.lines

\* Handler p computed a fingerprint
Fingerprinted(p) == loc[p].op_hash # NullHash

\* Handler p ran its duplicate check and the store answered it
RanDuplicateCheck(p) ==
    \E i \in 1..Len(loc[p].steps) : loc[p].steps[i] = "dup_check"

\* The first row of receipts_log carries the fingerprint of handler p
RecordedFirst(p) ==
    receipts_log # <<>> /\ receipts_log[1].op_hash = loc[p].op_hash

\* C1: when the first of two requests with the same actor, docEntry,
\* warehouse and lines was posted and recorded, the second one, handled
\* afterwards on the same day and past validation, is answered DUPLICATE,
\* writes nothing to the ERP and adds no audit row
C1_SecondIsDuplicate ==
    ( /\ pc[1] = "done" /\ pc[2] = "done"
      /\ SameOperation(req[1], req[2])
      /\ response[1].status = 201 /\ RecordedFirst(1)
      /\ Fingerprinted(2) /\ loc[2].date = loc[1].date
      /\ RanDuplicateCheck(2) )
    => /\ response[2].code = "DUPLICATE"
       /\ erp[2].writes = 0
       /\ Len(receipts_log) = 1

\* C1, the failing case: two requests that differ only in supplierRef, the
\* same day, both posted to the ERP, both answered 201, two audit rows
C1_BothPosted ==
    /\ pc[1] = "done" /\ pc[2] = "done"
    /\ SameOperation(req[1], req[2])
    /\ req[1].supplierRef # req[2].supplierRef
    /\ loc[2].date = loc[1].date
    /\ response[1].status = 201 /\ response[2].status = 201
    /\ erp[1].writes = 1 /\ erp[2].writes = 1
    /\ Len(receipts_log) = 2

\* b is a reordering of a
IsPermutation(a, b) ==
    /\ Len(a) = Len(b)
    /\ \E f \in Permutations(1..Len(a)) : \A i \in 1..Len(a) : b[i] = a[f[i]]

\* C6: two requests that differ only in the order of their lines have the
\* same fingerprint
C6_FingerprintIgnoresLineOrder ==
    ( /\ Fingerprinted(1) /\ Fingerprinted(2)
      /\ req[1].user = req[2].user
      /\ req[1].docEntry = req[2].docEntry
      /\ loc[1].whs = loc[2].whs
      /\ req[1].supplierRef = req[2].supplierRef
      /\ loc[1].date = loc[2].date
      /\ IsPermutation(req[1].lines, req[2].lines) )
    => loc[1].op_hash = loc[2].op_hash

\* C6, the failing case: the same two lines of one lineNum in the two
\* orders, two fingerprints
C6_ReorderedOtherFingerprint ==
    /\ Fingerprinted(1) /\ Fingerprinted(2)
    /\ req[1].supplierRef = req[2].supplierRef
    /\ loc[1].date = loc[2].date
    /\ req[1].lines # req[2].lines
    /\ IsPermutation(req[1].lines, req[2].lines)
    /\ loc[1].op_hash # loc[2].op_hash

\* C2: of two requests with one fingerprint at most one writes to the ERP
\* and is answered with success
C2_AtMostOneSuccess ==
    (Fingerprinted(1) /\ loc[1].op_hash = loc[2].op_hash) =>
        ~( /\ erp[1].writes >= 1 /\ erp[2].writes >= 1
           /\ response[1].status = 201 /\ response[2].status = 201 )

\* C2, the failing case: both handlers passed the duplicate check before
\* either inserted its row; both wrote to the ERP and answered 201
C2_BothSucceeded ==
    /\ Fingerprinted(1) /\ loc[1].op_hash = loc[2].op_hash
    /\ erp[1].writes = 1 /\ erp[2].writes = 1
    /\ response[1].status = 201 /\ response[2].status = 201
    /\ Len(receipts_log) = 2
    /\ receipts_log[1].op_hash = receipts_log[2].op_hash

(***************************************************************************)
(* Properties of the audit rows and of a failed ERP write, under Spec      *)
(***************************************************************************)
\* The receipt of handler p was answered 201
Accepted(p) == req[p].op = "post" /\ pc[p] = "done" /\ response[p].status = 201

\* A row of receipts_log that carries line l and the fingerprint of handler p
RowOfLine(row, p, l) ==
    /\ row.po_line_num # None
    /\ row.po_line_num = l.lineNum
    /\ row.posted_qty = l.quantity
    /\ row.op_hash = loc[p].op_hash

\* C11: an accepted receipt leaves one audit row per posted line, each with
\* the line's lineNum, its posted quantity and the fingerprint, so that the
\* number of rows equals the number of posted lines
C11_OneRowPerPostedLine ==
    \A p \in Procs : Accepted(p) =>
        /\ Len(receipts_log) = Len(loc[p].to_post)
        /\ \A i \in 1..Len(loc[p].to_post) :
              RowOfLine(receipts_log[i], p, loc[p].to_post[i])

\* C11, the failing case: two lines posted to the ERP and one row stored,
\* with no line number and the sum of the two quantities
C11_OneRowForTwoLines ==
    /\ Accepted(1)
    /\ Len(loc[1].to_post) = 2 /\ Len(loc[1].posted) = 2
    /\ Len(receipts_log) = 1
    /\ receipts_log[1].po_line_num = None
    /\ receipts_log[1].posted_qty = loc[1].to_post[1].quantity + loc[1].to_post[2].quantity
    /\ receipts_log[1].op_hash = loc[1].op_hash

\* The steps of handler p that are s
StepsOf(p, s) == {i \in 1..Len(loc[p].steps) : loc[p].steps[i] = s}

\* post_grpo raised while handler p was posting its receipt
WriteFailed(p) == req[p].op = "post" /\ StepsOf(p, "erp_write_failed") # {}

\* C12: when post_grpo raises, the handler has called post_grpo once and
\* never calls it again, stores no audit row, and answers with an error
C12_FailedWriteIsAnError ==
    \A p \in Procs : WriteFailed(p) =>
        /\ pc[p] = "done"
        /\ Cardinality(StepsOf(p, "erp_write_failed") \cup StepsOf(p, "erp_write")) = 1
        /\ StepsOf(p, "insert") = {}
        /\ receipts_log = <<>>
        /\ response[p].status >= 400

\* C12 witness: a validated receipt whose write reached the ERP and failed,
\* answered 500 with nothing stored
C12_Witness ==
    /\ WriteFailed(1)
    /\ erp[1].writes >= 1
    /\ loc[1].to_post # <<>>
    /\ response[1].status = 500
    /\ receipts_log = <<>>

(***************************************************************************)
(* Properties of the date literal of a list call, under Spec               *)
(***************************************************************************)
\* Handler p ran get_open_purchase_orders with a date filter
DateFiltered(p) ==
    /\ req[p].op = "list"
    /\ DateFiltersPresent(req[p].due_from, req[p].due_to)
    /\ loc[p].formats_to_try # <<>>

\* The literals of the DocDueDate conditions of a $filter
DateLiterals(filter) ==
    {filter[i].lit : i \in {j \in 1..Len(filter) :
                              filter[j].cond \in {"DocDueDate ge", "DocDueDate le"}}}

\* The literal of date d in encoding fmt: the encoding's name, the quoted
\* date and time
EncodedLiteral(fmt, d) ==
    <<fmt[1], "'", IF d # None THEN d[1] ELSE "", "T00:00:00Z", "'">>

\* The $filter carries the date d in encoding fmt
CarriesEncoding(filter, fmt, d) == EncodedLiteral(fmt, d) \in DateLiterals(filter)

\* The ERP answered the attempts of handler p's list call with 400, then 2xx
RejectedThenAccepted(p) ==
    /\ DateFiltered(p)
    /\ loc[p].formats_to_try[1] = Text("datetimeoffset")
    /\ Len(loc[p].answers) >= 2
    /\ loc[p].answers[1] = [kind |-> "HTTPError", status |-> "400"]
    /\ loc[p].answers[2].kind = "ok"

\* C13: when the ERP answers 400 to the request with the datetimeoffset
\* literal and 2xx to the one with the datetime literal, the call has sent
\* exactly those two requests in that order
C13_FallbackSendsBothEncodings ==
    \A p \in Procs : RejectedThenAccepted(p) =>
        /\ Len(loc[p].queries) = 2
        /\ CarriesEncoding(loc[p].queries[1].filter, Text("datetimeoffset"), req[p].due_from)
        /\ CarriesEncoding(loc[p].queries[2].filter, Text("datetime"), req[p].due_from)

\* C13, the failing case: the call answered 400, then 2xx, returned a page
\* after two requests with one and the same $filter, which names no encoding
C13_SameFilterTwice ==
    /\ RejectedThenAccepted(1)
    /\ response[1].status = 200
    /\ Len(loc[1].queries) = 2
    /\ loc[1].queries[1] = loc[1].queries[2]
    /\ req[1].due_from # None
    /\ DateLiterals(loc[1].queries[1].filter) = {<<req[1].due_from[1], "T00:00:00Z">>}

\* C15: a $filter built for the datetimeoffset or the datetime encoding
\* contains the date as datetimeoffset'<date>T00:00:00Z' or
\* datetime'<date>T00:00:00Z'
C15_LiteralNamesEncoding ==
    \A p \in Procs : DateFiltered(p) =>
        \A i \in 1..Len(loc[p].queries) :
            loc[p].formats_to_try[i] \in {Text("datetimeoffset"), Text("datetime")} =>
                CarriesEncoding(loc[p].queries[i].filter, loc[p].formats_to_try[i],
                                req[p].due_from)

\* C15, the failing case: the first request of a date-filtered call, built
\* for datetimeoffset, carries the date and time with no encoding around it
C15_BareLiteral ==
    /\ DateFiltered(1)
    /\ Len(loc[1].queries) >= 1
    /\ loc[1].formats_to_try[1] = Text("datetimeoffset")
    /\ ~CarriesEncoding(loc[1].queries[1].filter, Text("datetimeoffset"), req[1].due_from)
    /\ req[1].due_from # None
    /\ <<req[1].due_from[1], "T00:00:00Z">> \in DateLiterals(loc[1].queries[1].filter)

(***************************************************************************)
(* Properties of the remembered date format, under SpecList                *)
(***************************************************************************)
\* The date-filtered call of handler p returned a page, its last request
\* built for the encoding f
SucceededWith(p, f) ==
    /\ DateFiltered(p)
    /\ pc[p] = "done" /\ response[p].status = 200
    /\ loc[p].formats_to_try[Len(loc[p].queries)] = f

\* C14: after a date-filtered call succeeded with the encoding f, the client
\* holds f, the class holds f until the next call, and the next
\* date-filtered call, on that client or on a new one, builds its first
\* request for f
C14_NextCallStartsWithRemembered ==
    \A f \in {DATE_FORMATS[i] : i \in 1..Len(DATE_FORMATS)} :
        SucceededWith(1, f) =>
            /\ client[1].date_format = f
            /\ pc[2] = "idle" => preferred_date_format = f
            /\ DateFiltered(2) =>
                  /\ loc[2].formats_to_try[1] = f
                  /\ \A i \in 1..Len(loc[2].queries) : loc[2].formats_to_try[i] = f => i = 1

\* C14 witness: the first call succeeded with datetime after a rejected
\* datetimeoffset, and the second call sent its first request for datetime
C14_Witness ==
    /\ SucceededWith(1, Text("datetime"))
    /\ Len(loc[1].queries) = 2
    /\ DateFiltered(2)
    /\ Len(loc[2].queries) >= 1
    /\ loc[2].formats_to_try[1] = Text("datetime")
    /\ loc[2].queries[1] =
          ListParams(client[2], req[2].due_from, req[2].due_to, req[2].vendor,
                     loc[2].whs, req[2].page.n, req[2].pageSize.n, Text("datetime"))

(***************************************************************************)
(* Properties of the pages and documents returned, under Spec and          *)
(* SpecClient                                                              *)
(***************************************************************************)
\* The list call of handler p returned a page for a warehouse
ListedForWhs(p) ==
    /\ req[p].op = "list" /\ pc[p] = "done" /\ response[p].status = 200
    /\ Truthy(loc[p].whs)

\* The ERP returned, for the order, a line of warehouse w that is still open
HasOpenLine(order, w) ==
    \E j \in 1..Len(order.DocumentLines) :
        LET d == order.DocumentLines[j]
        IN  /\ d.WarehouseCode = w
            /\ \/ d.OpenQuantity.kind = "num" /\ d.OpenQuantity.n > 0
               \/ d.OpenQuantity.kind = "dec" /\ d.OpenQuantity.text # "0.0"

\* C16: with a warehouse W the orders returned are the orders of the ERP's
\* page that have a line of W with OpenQuantity > 0, each once, in the
\* order the ERP gave them
C16_OnlyOrdersOpenForWhs ==
    \A p \in Procs : ListedForWhs(p) =>
        LET page == loc[p].payload.value
            data == response[p].body.data
            Open(order) == HasOpenLine(order, loc[p].whs)
            kept == SelectSeq(page, Open)
        IN  /\ \A i \in 1..Len(data) :
                  \E k \in 1..Len(page) :
                      page[k].DocEntry = data[i].docEntry /\ Open(page[k])
            /\ \A k \in 1..Len(page) :
                  ~Open(page[k]) => \A i \in 1..Len(data) : data[i].docEntry # page[k].DocEntry
            /\ Len(data) = Len(kept)
            /\ \A i \in 1..Len(data) :
                  data[i].docEntry = kept[i].DocEntry /\ data[i].docNum = kept[i].DocNum

\* C16 witness: of a page of three orders the first and the third are
\* returned, in that order, and the second, which has no line of the
\* warehouse, is not
C16_Witness ==
    /\ ListedForWhs(1)
    /\ Len(loc[1].payload.value) = 3
    /\ HasOpenLine(loc[1].payload.value[1], loc[1].whs)
    /\ ~HasOpenLine(loc[1].payload.value[2], loc[1].whs)
    /\ Len(response[1].body.data) = 2
    /\ response[1].body.data[1].docEntry = loc[1].payload.value[1].DocEntry
    /\ response[1].body.data[2].docEntry = loc[1].payload.value[3].DocEntry
    /\ loc[1].payload.value[3].DocumentLines[2].OpenQuantity = Dec("0.5")

\* The last call was a get_purchase_order that returned a document
DetailReturned ==
    lastcall.op = "get_purchase_order" /\ lastcall.kind = "ok"

\* The open quantity the ERP gave for a line, 0 when it gave none
OpenQtyOrZero(d) == IF d.OpenQuantity.kind = "num" THEN d.OpenQuantity.n ELSE 0

\* C17: get_purchase_order returns the lines of the document whose
\* warehouseCode is the warehouse asked for, all lines when none is asked
\* for, in document order, with openQty 0 where the ERP gave no open quantity
C17_LinesOfTheWarehouse ==
    DetailReturned =>
        LET w == lastcall.whs
            OfWhs(d) == ~Truthy(w) \/ d.WarehouseCode = w
            want == SelectSeq(lastcall.body.DocumentLines, OfWhs)
            got == lastcall.value.lines
        IN  /\ Len(got) = Len(want)
            /\ \A i \in 1..Len(want) :
                  /\ got[i].lineNum = want[i].LineNum
                  /\ got[i].warehouseCode = want[i].WarehouseCode
                  /\ got[i].openQty = OpenQtyOrZero(want[i])

\* C17, the failing case: the document has lines 0 and 2 in the warehouse,
\* line 0 with no open quantity, and line 2 alone is returned
C17_LineWithoutOpenQtyDropped ==
    /\ DetailReturned
    /\ lastcall.whs = Text("WH1")
    /\ lastcall.body.DocumentLines[1].WarehouseCode = Text("WH1")
    /\ lastcall.body.DocumentLines[1].OpenQuantity = Null
    /\ lastcall.body.DocumentLines[3].WarehouseCode = Text("WH1")
    /\ Len(lastcall.value.lines) = 1
    /\ lastcall.value.lines[1].lineNum = lastcall.body.DocumentLines[3].LineNum

\* Handler p ran a list or detail operation and the ERP answered its
\* request with a 2xx and a JSON body
ReadBody(p) ==
    /\ req[p].op \in {"list", "detail"}
    /\ pc[p] = "done"
    /\ loc[p].payload # <<>>

\* The quantity the ERP gave, 0 when it is missing or not a number
QtyOrZero(j) == IF j.kind = "num" THEN j.n ELSE 0

\* C18: a list or detail operation whose request the ERP accepted does not
\* raise on a missing or non-numeric Quantity or OpenQuantity, and the
\* detail reports such a quantity as 0
C18_QuantitiesDefaultToZero ==
    \A p \in Procs : ReadBody(p) =>
        /\ response[p].status \in {200, 404}
        /\ (req[p].op = "detail" /\ response[p].status = 200) =>
              \A i \in 1..Len(response[p].body.lines) :
                  \E j \in 1..Len(loc[p].payload.DocumentLines) :
                      LET d == loc[p].payload.DocumentLines[j]
                          l == response[p].body.lines[i]
                      IN  /\ l.lineNum = d.LineNum
                          /\ l.orderedQty = QtyOrZero(d.Quantity)
                          /\ l.openQty = QtyOrZero(d.OpenQuantity)

\* C18, the failing case: the ERP answered a detail request with a document
\* whose line of the warehouse has a non-numeric OpenQuantity, and the
\* request ended in the 500 answer for a ValueError
C18_NonNumericRaises ==
    /\ ReadBody(1)
    /\ req[1].op = "detail"
    /\ \E j \in 1..Len(loc[1].payload.DocumentLines) :
          /\ loc[1].payload.DocumentLines[j].WarehouseCode = loc[1].whs
          /\ loc[1].payload.DocumentLines[j].OpenQuantity = Str
    /\ response[1] = Unhandled("ValueError")

(***************************************************************************)
(* Properties of the validation of the lines of a receipt, under Spec      *)
(***************************************************************************)
\* The line names a lineNum that is not among the lines fetched as open for
\* the warehouse of the request
UnknownLine(p, l) == l.wellformed /\ l.lineNum \notin DOMAIN loc[p].open_by_line

\* The request of handler p was rejected as invalid and nothing was written
RejectedUnwritten(p) ==
    /\ pc[p] = "done"
    /\ response[p].status = 400 /\ response[p].code = "VALIDATION"
    /\ erp[p].writes = 0

\* C19: a receipt with a line whose lineNum is not among the lines open for
\* the warehouse is rejected with VALIDATION and nothing is written to the
\* ERP, whatever the quantity of that line
C19_UnknownLineRejected ==
    \A p \in Procs :
        (FetchedOpenQty(p) /\ \E i \in 1..Len(req[p].lines) : UnknownLine(p, req[p].lines[i]))
            => RejectedUnwritten(p)

\* C19, the failing case: a receipt naming a line that is not open for the
\* warehouse, with quantity 0, was written to the ERP and answered 201
C19_UnknownLineAccepted ==
    /\ Accepted(1)
    /\ erp[1].writes >= 1
    /\ \E i \in 1..Len(req[1].lines) :
          UnknownLine(1, req[1].lines[i]) /\ req[1].lines[i].quantity = 0

\* C20: a receipt with a line whose quantity is zero or negative is rejected
\* with VALIDATION and nothing is written to the ERP, also when its other
\* lines are valid
C20_NonPositiveLineRejected ==
    \A p \in Procs :
        (FetchedOpenQty(p) /\ \E i \in 1..Len(req[p].lines) :
                                 req[p].lines[i].wellformed /\ req[p].lines[i].quantity <= 0)
            => RejectedUnwritten(p)

\* C20, the failing case: a receipt with a line of quantity 0 on an open
\* line and another line of positive quantity was written to the ERP with
\* the positive line alone and answered 201
C20_ZeroLineAccepted ==
    /\ Accepted(1)
    /\ erp[1].writes >= 1
    /\ Len(req[1].lines) = 2 /\ Len(loc[1].posted) = 1
    /\ \E i \in 1..2 :
          /\ req[1].lines[i].quantity = 0
          /\ ~UnknownLine(1, req[1].lines[i])

(***************************************************************************)
(* Properties of a rejected login, under Spec                              *)
(***************************************************************************)
\* The i-th interaction of handler p with the ERP is a login that the ERP
\* answered with a non-2xx status
LoginRejectedAt(p, i) ==
    /\ erp[p].trace[i].ev = "login"
    /\ erp[p].trace[i].status \in {"400", "401", "404", "500"}

\* C21: a login answered with a non-2xx status is the last interaction of
\* the operation with the ERP, and the operation ends with an error; for
\* the list, the detail and the post operation alike
C21_RejectedLoginIsFatal ==
    \A p \in Procs : \A i \in 1..Len(erp[p].trace) :
        LoginRejectedAt(p, i) =>
            /\ i = Len(erp[p].trace)
            /\ pc[p] = "done"
            /\ response[p].status >= 400

\* C21, the failing case: a date-filtered list call whose first login was
\* answered 400 went on to log in again
C21_LoginRepeatedByFallback ==
    /\ DateFiltered(1)
    /\ Len(erp[1].trace) >= 2
    /\ LoginRejectedAt(1, 1) /\ erp[1].trace[1].status = "400"
    /\ erp[1].trace[2].ev = "login"

(***************************************************************************)
(* Properties of the answers of the handlers, under Spec                   *)
(***************************************************************************)
\* C22: the 201 answer of a receipt carries the document number the ERP
\* assigned, the fingerprint, and one entry per posted line with its
\* lineNum and posted quantity
C22_SuccessListsPostedLines ==
    \A p \in Procs : Accepted(p) =>
        LET body == response[p].body
        IN  /\ body.grpoDocEntry = loc[p].grpo_doc
            /\ body.opHash = loc[p].op_hash
            /\ "lines" \in DOMAIN body
            /\ Len(body.lines) = Len(loc[p].to_post)
            /\ \A i \in 1..Len(loc[p].to_post) :
                  /\ body.lines[i].lineNum = loc[p].to_post[i].lineNum
                  /\ body.lines[i].quantity = loc[p].to_post[i].quantity

\* C22, the failing case: a 201 answer for two posted lines whose body holds
\* the document number and the fingerprint and nothing else
C22_SuccessWithoutLines ==
    /\ Accepted(1)
    /\ Len(loc[1].to_post) = 2
    /\ DOMAIN response[1].body = {"grpoDocEntry", "opHash"}
    /\ response[1].body.grpoDocEntry = loc[1].grpo_doc
    /\ response[1].body.opHash = loc[1].op_hash

\* The category of the specification that an error code of the answers
\* stands for; "none" for a code that names no category
CategoryOf(code) ==
    CASE code = "VALIDATION" -> "validation"
      [] code = "FORBIDDEN" -> "forbidden"
      [] code = "NOT_FOUND" -> "not-found"
      [] code = "DUPLICATE" -> "duplicate"
      [] code = "UPSTREAM_ERROR" -> "upstream-error"
      [] code = "CONFIG_ERROR" -> "config-error"
      [] OTHER -> "none"

\* Handler p answered with a failure
Failed(p) == pc[p] = "done" /\ response[p].status >= 400

\* The last interaction of handler p with the ERP ended in a non-2xx status
\* or in a transport failure: the failure survived the retries of the client
ErpFailed(p) ==
    /\ pc[p] = "done"
    /\ erp[p].trace # <<>>
    /\ erp[p].trace[Len(erp[p].trace)].status \in {"400", "401", "404", "500", NET}

\* C23: every failure answered by the list, detail and post operations
\* carries one of the six categories, and a failure of the ERP carries the
\* category upstream-error
C23_FailuresAreCategorized ==
    \A p \in Procs :
        /\ Failed(p) =>
              CategoryOf(response[p].code) \in
                  {"validation", "forbidden", "not-found", "duplicate",
                   "upstream-error", "config-error"}
        /\ ErpFailed(p) => CategoryOf(response[p].code) = "upstream-error"

\* C23, the failing case: the write of a receipt failed twice at the
\* transport and the request was answered 500 with the code UNEXPECTED_ERROR
C23_UpstreamFailureUnexpected ==
    /\ req[1].op = "post" /\ ErpFailed(1)
    /\ erp[1].writes = 2
    /\ erp[1].trace[Len(erp[1].trace)] = Ev("POST", NET)
    /\ response[1].status = 500
    /\ response[1].code = "UNEXPECTED_ERROR"

(***************************************************************************)
(* Properties of the order of the steps of a receipt, under Spec           *)
(***************************************************************************)
\* C24: an accepted receipt has read the open quantities, validated the
\* lines, checked the fingerprint for a duplicate, written to the ERP,
\* inserted the audit row and answered, in this order; and no write is sent
\* to the ERP unless validation and the duplicate check have passed before
C24_StepsInOrder ==
    \A p \in Procs :
        /\ Accepted(p) =>
              loc[p].steps =
                  <<"erp_read", "validated", "dup_check", "erp_write", "insert", "respond">>
        /\ (req[p].op = "post" /\ erp[p].writes >= 1) =>
              /\ Len(loc[p].steps) >= 4
              /\ SubSeq(loc[p].steps, 1, 3) = <<"erp_read", "validated", "dup_check">>
              /\ loc[p].steps[4] \in {"erp_write", "erp_write_failed"}

\* C24, the failing case: the SELECT of the duplicate check raised, and the
\* receipt was written to the ERP, recorded and answered 201 all the same
C24_WrittenWithoutDuplicateCheck ==
    /\ Accepted(1)
    /\ erp[1].writes >= 1
    /\ loc[1].steps =
          <<"erp_read", "validated", "dup_check_failed", "erp_write", "insert", "respond">>

(***************************************************************************)
(* Properties of a client shared by two threads, under SpecShared          *)
(***************************************************************************)
\* A cookie jar as login() leaves it: session cookie and routing cookie
CompleteJar(jar) ==
    /\ \E k \in jar : k.name = "B1SESSION"
    /\ \E k \in jar : k.name = "ROUTEID"

\* Some thread is between clearing the cookies and installing the last one
MidLogin ==
    \E q \in Procs :
        pc[q] \in {"set_b1session", "write_b1session", "set_routeid", "write_routeid"}

\* C25: no request is sent with a cookie jar that a login has cleared and
\* not yet filled again: every request leaves with the session cookie and
\* the routing cookie
C25_NoHalfUpdatedJarSent ==
    \A p \in Procs : \A i \in 1..Len(erp[p].trace) : CompleteJar(erp[p].trace[i].jar)

\* C25, the failing case: thread 1 has logged in and sent its request while
\* thread 2 was inside login(), and the request left without any cookie
C25_SentDuringLogin ==
    /\ erp[1].logins = 1 /\ erp[2].logins = 1
    /\ Len(erp[1].trace) = 1
    /\ erp[1].trace[1].jar = {}
    /\ MidLogin

(***************************************************************************)
(* Bounds of one call of the transport, under SpecClient                   *)
(***************************************************************************)
\* The sends of a trace that come right after a login which itself came
\* after a send: the re-sends caused by a 401
ResendsAfterRelogin(t) ==
    {i \in Sends(t) : i > 2 /\ t[i - 1].ev = "login" /\ IsSend(t[i - 2])}

\* C26: a call of _request ends with a response or an error after at most
\* one re-send for a transport failure and at most one re-send for a 401:
\* at most three sends of the request and at most two logins
C26_BoundedRetries ==
    LET t == lastcall.trace
    IN  lastcall.op # "none" =>
          /\ lastcall.kind \in {"ok", "HTTPError", "TransportError"}
          /\ CountEv(t, "sleep") <= 1
          /\ Cardinality(ResendsAfterRelogin(t)) <= 1
          /\ Cardinality(Sends(t)) = 
                IF Sends(t) = {} THEN 0
                ELSE 1 + CountEv(t, "sleep") + Cardinality(ResendsAfterRelogin(t))
          /\ Cardinality(Sends(t)) <= 3
          /\ CountEv(t, "login") <= 2

\* C26 witness: a call that logged in, failed at the transport, slept,
\* re-sent, was answered 401, logged in again and sent a third time
C26_Witness ==
    LET t == lastcall.trace
    IN  /\ Len(t) = 6
        /\ Cardinality(Sends(t)) = 3
        /\ CountEv(t, "login") = 2
        /\ t[1].ev = "login" /\ t[2].status = NET /\ t[3].ev = "sleep"
        /\ t[4].status = "401" /\ t[5] = Ev("login", "200") /\ IsSend(t[6])

(***************************************************************************)
(* Properties of the fallback over the date encodings, under SpecList      *)
(***************************************************************************)
\* The candidates other than f, in the order of DATE_FORMATS
OthersInOrder(f) == SelectSeq(DATE_FORMATS, LAMBDA g : g # f)

\* The ERP answered 400 to every attempt of the date-filtered call of p
AllRejected(p) ==
    /\ DateFiltered(p)
    /\ Len(loc[p].answers) = Len(DATE_FORMATS)
    /\ \A i \in 1..Len(loc[p].answers) :
          loc[p].answers[i] = [kind |-> "HTTPError", status |-> "400"]

\* What the class remembered when the second call began
RememberedAfterFirst ==
    IF DateFiltered(1) /\ response[1].status = 200 THEN client[1].date_format ELSE None

\* C27: a date-filtered call tries the remembered encoding first and then
\* the other candidates in the order datetimeoffset, datetime, iso, one
\* attempt each; when all are answered 400 the call raises that error and
\* the client and the class remember what they remembered before (for the
\* first call, as long as the second has not begun)
C27_CandidatesInOrderOnce ==
    \A p \in Procs : DateFiltered(p) =>
        LET tried == loc[p].formats_to_try
        IN  /\ tried = <<tried[1]>> \o OthersInOrder(tried[1])
            /\ pc[p] = "list" =>
                  /\ tried[1] = client[p].date_format
                  /\ loc[p].idx = Len(loc[p].answers) + 1
            /\ Len(loc[p].queries) = Len(loc[p].answers)
            /\ Len(loc[p].answers) <= Len(DATE_FORMATS)
            /\ \A i \in 1..(Len(loc[p].answers) - 1) :
                  loc[p].answers[i] = [kind |-> "HTTPError", status |-> "400"]
            /\ AllRejected(p) =>
                  /\ pc[p] = "done"
                  /\ response[p] = Unhandled("HTTPError")
                  /\ client[p].date_format = tried[1]
                  /\ (p = 1 /\ pc[2] = "idle") => preferred_date_format = None
                  /\ p = 2 => preferred_date_format = RememberedAfterFirst

\* C27 witness: the second call started with the remembered datetime, went
\* on with datetimeoffset and iso, was answered 400 three times and raised
C27_Witness ==
    /\ AllRejected(2)
    /\ loc[2].formats_to_try = <<Text("datetime"), Text("datetimeoffset"), Text("iso")>>
    /\ pc[2] = "done"
    /\ preferred_date_format = Text("datetime")
    /\ client[2].date_format = Text("datetime")

\* Handler p is in, or has ended, a call of get_open_purchase_orders
ListCalled(p) == req[p].op = "list" /\ loc[p].formats_to_try # <<>>

\* The i-th attempt of the call of p ended in an error that is not a 400
\* answered to a date-filtered request
NotARejectedDate(p, i) ==
    /\ loc[p].answers[i].kind # "ok"
    /\ \/ ~DateFiltersPresent(req[p].due_from, req[p].due_to)
       \/ loc[p].answers[i] # [kind |-> "HTTPError", status |-> "400"]

\* C28: an attempt of a list call is followed by an attempt with another
\* encoding only if the call has a date filter and the ERP answered 400; an
\* error with another status, a transport failure, and any error of a call
\* without date filter end the call with that error at that attempt, and a
\* call without date filter makes one attempt
C28_FallbackOnlyOnRejectedDate ==
    \A p \in Procs : ListCalled(p) =>
        /\ ~DateFiltersPresent(req[p].due_from, req[p].due_to) => Len(loc[p].answers) <= 1
        /\ \A i \in 1..Len(loc[p].answers) :
              NotARejectedDate(p, i) =>
                  /\ i = Len(loc[p].answers) /\ Len(loc[p].queries) = i
                  /\ pc[p] = "done"
                  /\ response[p] = Unhandled(loc[p].answers[i].kind)

\* C28 witness: the first attempt of a date-filtered call was answered 500
\* and the call raised after that one attempt
C28_Witness ==
    /\ DateFiltered(1)
    /\ loc[1].answers = <<[kind |-> "HTTPError", status |-> "500"]>>
    /\ Len(loc[1].queries) = 1
    /\ pc[1] = "done"
    /\ response[1] = Unhandled("HTTPError")

\* C29: the request sent by the fallback after a 400 has a $filter that
\* differs from the rejected one, and two distinct encodings give distinct
\* literals for the same date
C29_ResentFilterDiffers ==
    /\ \A p \in Procs : DateFiltered(p) =>
          \A i \in 1..(Len(loc[p].queries) - 1) :
              loc[p].answers[i] = [kind |-> "HTTPError", status |-> "400"] =>
                  loc[p].queries[i + 1].filter # loc[p].queries[i].filter
    /\ \A p \in Procs : DateFiltered(p) =>
          \A i, j \in 1..Len(loc[p].formats_to_try) :
              loc[p].formats_to_try[i] # loc[p].formats_to_try[j] =>
                  \A d \in {req[p].due_from, req[p].due_to} \ {None} :
                      FormatDateLiteral(d, loc[p].formats_to_try[i])
                          # FormatDateLiteral(d, loc[p].formats_to_try[j])

\* C29, the failing case: a date-filtered call was answered 400 three times
\* and sent, for datetimeoffset, datetime and iso, the same $filter each time
C29_SameFilterResent ==
    /\ DateFiltered(1)
    /\ loc[1].formats_to_try = DATE_FORMATS
    /\ Len(loc[1].queries) = 3
    /\ \A i \in 1..3 : loc[1].answers[i] = [kind |-> "HTTPError", status |-> "400"]
    /\ loc[1].queries[2].filter = loc[1].queries[1].filter
    /\ loc[1].queries[3].filter = loc[1].queries[2].filter
    /\ pc[1] = "done"
    /\ response[1] = Unhandled("HTTPError")

(***************************************************************************)
(* The components of the fingerprint, under SpecIdem                       *)
(***************************************************************************)
\* The actor, docEntry, warehouse, lines sorted by lineNum and day of the
\* request of handler p
FiveComponents(p) ==
    <<req[p].user.sub, req[p].docEntry, loc[p].whs, SortByLineNum(loc[p].to_post),
      loc[p].date>>

\* C30: the fingerprint is a function of exactly the actor, docEntry,
\* warehouse, lines sorted by lineNum and calendar day: two requests have
\* the same fingerprint if and only if they agree on these five components
C30_FingerprintOfFiveComponents ==
    (Fingerprinted(1) /\ Fingerprinted(2)) =>
        ((FiveComponents(1) = FiveComponents(2)) <=> (loc[1].op_hash = loc[2].op_hash))

\* C30, the failing case: two requests agree on the five components, one
\* carries a supplierRef and the other none, and their fingerprints differ
C30_SupplierRefInFingerprint ==
    /\ Fingerprinted(1) /\ Fingerprinted(2)
    /\ FiveComponents(1) = FiveComponents(2)
    /\ req[1].supplierRef = None /\ req[2].supplierRef = Text("REM-1")
    /\ loc[1].op_hash # loc[2].op_hash

(***************************************************************************)
(* The quantities posted per line, under Spec                              *)
(***************************************************************************)
\* The sum of the quantities of the document lines with base line ln
RECURSIVE PostedFor(_, _)
PostedFor(document_lines, ln) ==
    IF document_lines = <<>> THEN 0
    ELSE (IF Head(document_lines).BaseLine = ln THEN Head(document_lines).Quantity ELSE 0)
         + PostedFor(Tail(document_lines), ln)

\* C31: in an accepted receipt, for each lineNum the sum of the quantities
\* posted to the ERP does not exceed the open quantity fetched for that line
\* in the same request, also when the request names the lineNum twice
C31_PostedWithinOpenQty ==
    \A p \in Procs : (req[p].op = "post" /\ loc[p].posted # <<>>) =>
        \A i \in 1..Len(loc[p].posted) :
            PostedFor(loc[p].posted, loc[p].posted[i].BaseLine)
                <= MaxOpen(loc[p].open_by_line, loc[p].posted[i].BaseLine)

\* C31, the failing case: line 0 has 2 open, the request names it twice with
\* quantity 2, and the accepted receipt posted 4 for it
C31_PostedTwiceTheOpenQty ==
    /\ Accepted(1)
    /\ req[1].lines = <<ReqLine(0, 2), ReqLine(0, 2)>>
    /\ MaxOpen(loc[1].open_by_line, 0) = 2
    /\ PostedFor(loc[1].posted, 0) = 4

(***************************************************************************)
(* The duplicate check before the ERP write, under Spec                    *)
(***************************************************************************)
\* The duplicate lookup of handler p failed with a store error
LookupFailed(p) ==
    \E i \in 1..Len(loc[p].steps) : loc[p].steps[i] = "dup_check_failed"

\* C32: a receipt whose write was sent to the ERP ran a duplicate check that
\* the store answered and that found no row with its fingerprint; a receipt
\* whose duplicate lookup failed with a store error sends no write
C32_WriteOnlyAfterCompletedCheck ==
    \A p \in Procs : req[p].op = "post" =>
        /\ erp[p].writes >= 1 =>
              /\ RanDuplicateCheck(p)
              /\ response[p].code # "DUPLICATE"
        /\ LookupFailed(p) => erp[p].writes = 0

\* C32, the failing case: the SELECT of the duplicate check raised a store
\* error and the handler sent POST /PurchaseDeliveryNotes, which the ERP
\* answered with a document
C32_PostedAfterFailedLookup ==
    /\ req[1].op = "post"
    /\ LookupFailed(1) /\ ~RanDuplicateCheck(1)
    /\ erp[1].writes = 1
    /\ loc[1].posted # <<>>

(***************************************************************************)
(* The cookie jar after a login, under SpecClient                          *)
(***************************************************************************)
\* The jar the specification asks for after the login answered a: the token
\* under the API path prefix, the routing cookie under the root if one came
JarOf(a) ==
    <<Cookie("B1SESSION", a.sid, CookiePath, ClientDomain)>>
    \o (IF a.route # None THEN <<Cookie("ROUTEID", a.route, "/", ClientDomain)>> ELSE <<>>)

\* The logins of the last call that the ERP accepted
AcceptedLogins == {i \in 1..Len(lastcall.logins) : lastcall.logins[i].status = "200"}

\* C33: after a call whose last accepted login was answered a, the jar is
\* the token of a under the API path prefix and the routing cookie of a
\* under the root, with nothing left of the jar before, and the session id
\* is the installed token; a call whose logins were all rejected leaves the
\* jar and the session id as it found them
C33_LoginReplacesJar ==
    ncalls >= 1 =>
        IF AcceptedLogins = {}
        THEN /\ cl.cookies = lastcall.before.cookies
             /\ cl.session_id = lastcall.before.session_id
        ELSE LET a == lastcall.logins[CHOOSE i \in AcceptedLogins :
                                         \A j \in AcceptedLogins : j <= i]
             IN  /\ cl.cookies = JarOf(a)
                 /\ \E k \in Range(cl.cookies) :
                        k.name = "B1SESSION" /\ k.value = cl.session_id

\* C33, the failing case: the client held the cookies of its login, a call
\* was answered 401, the re-login was refused with an answer that set a
\* session cookie and a routing cookie, and the jar holds the old cookies
\* and the refused answer's cookies side by side under the old session id
C33_RefusedLoginChangedJar ==
    /\ ncalls = 2
    /\ lastcall.before.cookies = JarOf(LoginOk(1, Text("node1")))
    /\ lastcall.logins = <<LoginFailCookies("401", 2, Text("node2"))>>
    /\ cl.session_id = 1
    /\ cl.cookies = JarOf(LoginOk(1, Text("node1")))
                      \o <<Cookie("B1SESSION", 2, CookiePath, ErpHost),
                           Cookie("ROUTEID", Text("node2"), ErpRoutePath, ErpHost)>>

(***************************************************************************)
(* What changes the remembered date encoding, under Spec                   *)
(***************************************************************************)
\* The request of handler p carries a due date
HasDueDate(p) == req[p].due_from # None \/ req[p].due_to # None

\* This step changes the class's remembered encoding, or the encoding of
\* the client that handler p is using
RememberedChanges(p) ==
    \/ preferred_date_format' # preferred_date_format
    \/ pc[p] = "list" /\ client'[p].date_format # client[p].date_format

\* The values the class attribute may take
RememberedValues == {None} \cup {DATE_FORMATS[i] : i \in 1..Len(DATE_FORMATS)}

\* C34 as stated: the remembered encoding of the class and of the instance
\* changes only in a step in which a date-filtered list call succeeds; list
\* calls without date filter, failed list calls, detail calls and receipts
\* leave both as they are, and the class value is None or a candidate
C34_ChangesOnlyOnSuccess ==
    [][ /\ preferred_date_format' \in RememberedValues
        /\ \A p \in Procs : RememberedChanges(p) =>
              \E q \in Procs :
                  /\ pc[q] = "list" /\ req[q].op = "list" /\ HasDueDate(q)
                  /\ pc'[q] = "done" /\ response'[q].status = 200 ]_vars

\* C34, amended: the remembered encoding changes only in a step in which the
\* ERP accepts the request of a date-filtered list call, and it becomes the
\* encoding that request was built for, whether or not the call then fails
\* while reading the answer; calls without date filter, rejected list
\* requests, detail calls and receipts leave it as it is
C34_ChangesOnlyOnAcceptedRequest ==
    [][ /\ preferred_date_format' \in RememberedValues
        /\ \A p \in Procs : RememberedChanges(p) =>
              \E q \in Procs :
                  /\ pc[q] = "list" /\ req[q].op = "list" /\ HasDueDate(q)
                  /\ pc'[q] = "done"
                  /\ loc'[q].answers[Len(loc'[q].answers)].kind = "ok"
                  /\ preferred_date_format' = loc[q].formats_to_try[loc[q].idx]
                  /\ client'[q].date_format = preferred_date_format' ]_vars

\* C34 witness: the ERP accepted the request of a date-filtered list call,
\* the call raised while reading the page, and the class remembers the
\* encoding of that request
C34_Witness ==
    /\ req[1].op = "list" /\ HasDueDate(1)
    /\ pc[1] = "done"
    /\ loc[1].answers = <<[kind |-> "ok", status |-> "200"]>>
    /\ response[1] = Unhandled("ValueError")
    /\ preferred_date_format = Text("datetimeoffset")
    /\ client[1].date_format = Text("datetimeoffset")

(***************************************************************************)
(* SpecDetail: one call of get_purchase_order for an order whose line has  *)
(* quantities with a fraction                                              *)
(***************************************************************************)
\* The quantities the ERP reports: decimal literals and an integer
DecimalLiterals ==
    {"0.1", "0.2", "0.3", "0.4", "0.5", "0.6", "0.7", "0.9", "1.5", "1.7", "2.5", "2.9"}
DetailQuantities == {Dec(t) : t \in DecimalLiterals} \cup {Num(2)}

\* The purchase order as the ERP returns it
DecimalDocs ==
    {ErpDoc(7, <<ErpLine(0, Text("WH1"), q, o)>>) : q \in DetailQuantities, o \in DetailQuantities}

\* The ERP accepts every login and answers a request with 200 or 500
DetailScripts(c) == ScriptsOver(c, {DefaultLogin}, {"200", "500"})

ClientGetPurchaseOrderDecimal ==
    /\ ncalls = 0
    /\ \E ans \in DetailScripts(cl), o \in DecimalDocs, whs \in {None, Text("WH1")} :
          Called("get_purchase_order", whs, ans, o,
                 GetPurchaseOrder(cl, o.DocEntry, whs, ans, o))

NextDetail == ClientGetPurchaseOrderDecimal

SpecDetail == InitClient /\ [][NextDetail]_vars

(***************************************************************************)
(* Properties of the query of a list call, under SpecQuery                 *)
(***************************************************************************)
\* The two calls have the same arguments but for the warehouse, which one
\* of them names and the other does not
SameButWhs ==
    /\ req[1].op = "list" /\ req[2].op = "list"
    /\ [req[1] EXCEPT !.whsCode = None] = [req[2] EXCEPT !.whsCode = None]
    /\ req[1].whsCode # req[2].whsCode

\* C35: the warehouse is no part of the $filter: two requests built for the
\* same dates, vendor and encoding, one with and one without a warehouse,
\* have the same $filter; every $filter starts with the open-status
\* condition and names no warehouse; and the request asks for the expansion
\* of the lines exactly when a warehouse is requested
C35_WarehouseNotInFilter ==
    /\ SameButWhs =>
          \A i \in 1..Len(loc[1].queries), j \in 1..Len(loc[2].queries) :
              loc[1].formats_to_try[i] = loc[2].formats_to_try[j] =>
                  loc[1].queries[i].filter = loc[2].queries[j].filter
    /\ \A p \in Procs : req[p].op = "list" =>
          \A i \in 1..Len(loc[p].queries) :
              LET q == loc[p].queries[i]
              IN  /\ q.filter[1] = [cond |-> "DocumentStatus eq 'bost_Open'", lit |-> <<>>]
                  /\ \A k \in 1..Len(q.filter) :
                        q.filter[k].cond \in {"DocumentStatus eq 'bost_Open'",
                                              "DocDueDate ge", "DocDueDate le",
                                              "CardCode eq"}
                  /\ q.expand <=> (req[p].whsCode = Text("WH1"))

\* C35 witness: a call with due date, vendor and warehouse and a call with
\* the same arguments and no warehouse sent the same $filter, the first
\* with the expansion of the lines and the second without
C35_Witness ==
    /\ SameButWhs
    /\ req[1].whsCode = Text("WH1") /\ req[1].due_from # None /\ req[1].vendor = <<"V", "1">>
    /\ Len(loc[1].queries) = 1 /\ Len(loc[2].queries) = 1
    /\ loc[1].queries[1].filter = loc[2].queries[1].filter
    /\ Len(loc[1].queries[1].filter) = 3
    /\ loc[1].queries[1].expand /\ ~loc[2].queries[1].expand

\* C36: every list request is sent with $top = min(max(pageSize, 1), 100)
\* and $skip = (max(page, 1) - 1) * $top, so that 1 <= $top <= 100 and
\* $skip >= 0, and the page returned carries $top as its pageSize
C36_TopAndSkipBounded ==
    \A p \in Procs : req[p].op = "list" =>
        /\ \A i \in 1..Len(loc[p].queries) :
              LET q == loc[p].queries[i]
              IN  /\ q.top = Min(Max(req[p].pageSize.n, 1), 100)
                  /\ q.skip = (Max(req[p].page.n, 1) - 1) * q.top
                  /\ 1 <= q.top /\ q.top <= 100
                  /\ q.skip >= 0
        /\ (pc[p] = "done" /\ response[p].status = 200) =>
              response[p].body.pageSize = loc[p].queries[Len(loc[p].queries)].top

\* C36 witness: a call with page 3 and page size 101 was sent with $top 100
\* and $skip 200 and returned a page with pageSize 100
C36_Witness ==
    /\ req[1].page.n = 3 /\ req[1].pageSize.n = 101
    /\ pc[1] = "done" /\ response[1].status = 200
    /\ loc[1].queries[1].top = 100 /\ loc[1].queries[1].skip = 200
    /\ response[1].body.pageSize = 100

\* Reads a quoted literal's inside by the quoting rule: two single quotes
\* stand for one, a single quote alone is an unescaped one
RECURSIVE Unquote(_)
Unquote(inner) ==
    IF inner = <<>> THEN [ok |-> TRUE, text |-> <<>>]
    ELSE IF Head(inner) # "'"
    THEN LET r == Unquote(Tail(inner))
         IN  [ok |-> r.ok, text |-> <<Head(inner)>> \o r.text]
    ELSE IF Len(inner) >= 2 /\ inner[2] = "'"
    THEN LET r == Unquote(SubSeq(inner, 3, Len(inner)))
         IN  [ok |-> r.ok, text |-> <<"'">> \o r.text]
    ELSE [ok |-> FALSE, text |-> <<>>]

\* The literals of the CardCode conditions of a $filter
VendorLiterals(filter) ==
    {filter[k].lit : k \in {j \in 1..Len(filter) : filter[j].cond = "CardCode eq"}}

\* C37: the CardCode literal of every $filter built for a vendor code is the
\* code between single quotes with each single quote of the code doubled:
\* read by the quoting rule it has no unescaped single quote and gives back
\* the vendor code
C37_VendorQuotesDoubled ==
    \A p \in Procs : (req[p].op = "list" /\ req[p].vendor # <<>>) =>
        \A i \in 1..Len(loc[p].queries) :
            /\ VendorLiterals(loc[p].queries[i].filter) # {}
            /\ \A lit \in VendorLiterals(loc[p].queries[i].filter) :
                  /\ Len(lit) >= 2 /\ lit[1] = "'" /\ lit[Len(lit)] = "'"
                  /\ Unquote(SubSeq(lit, 2, Len(lit) - 1)).ok
                  /\ Unquote(SubSeq(lit, 2, Len(lit) - 1)).text = req[p].vendor

\* C37 witness: the vendor code O'B was sent as the literal 'O''B'
C37_Witness ==
    /\ req[1].op = "list" /\ req[1].vendor = <<"O", "'", "B">>
    /\ Len(loc[1].queries) >= 1
    /\ VendorLiterals(loc[1].queries[1].filter) = {<<"'", "O", "'", "'", "B", "'">>}

(***************************************************************************)
(* The document that post_grpo submits, under Spec                         *)
(***************************************************************************)
\* C38: the document sent to the ERP by a receipt has one line per line to
\* post, in the same order, each with base type 22, the docEntry of the
\* request as base entry, the line's lineNum as base line, the line's
\* quantity and the requested warehouse; it carries the reference field
\* exactly when the request gives a supplierRef, and then with that value
C38_DocumentMirrorsLines ==
    \A p \in Procs : (req[p].op = "post" /\ erp[p].writes >= 1) =>
        LET d == loc[p].document
            ls == loc[p].to_post
        IN  /\ Len(d.DocumentLines) = Len(ls)
            /\ \A i \in 1..Len(ls) :
                  d.DocumentLines[i] =
                      [BaseType |-> 22, BaseEntry |-> req[p].docEntry.n,
                       BaseLine |-> ls[i].lineNum, Quantity |-> ls[i].quantity,
                       WarehouseCode |-> loc[p].whs]
            /\ (d.Reference2 # None) <=> (req[p].supplierRef # None)
            /\ req[p].supplierRef # None => d.Reference2 = req[p].supplierRef

\* C38 witness: a receipt of lines 1 and 0, in this order, with a
\* supplierRef was sent as a document of two lines in that order with the
\* reference field
C38_Witness ==
    /\ req[1].op = "post" /\ erp[1].writes >= 1
    /\ req[1].supplierRef = Text("REM-1")
    /\ loc[1].to_post = <<[lineNum |-> 1, quantity |-> 2], [lineNum |-> 0, quantity |-> 1]>>
    /\ loc[1].document.Reference2 = Text("REM-1")
    /\ loc[1].document.DocumentLines[1].BaseLine = 1
    /\ loc[1].document.DocumentLines[2].BaseLine = 0

(***************************************************************************)
(* The quantities of a detail line, under SpecDetail                       *)
(***************************************************************************)
\* The line of the ERP's answer that the returned line l was made from
SourceLine(l) ==
    CHOOSE d \in Range(lastcall.body.DocumentLines) : d.LineNum = l.lineNum

\* receivedQty + openQty of a returned line, as Python adds them
ReceivedPlusOpen(l) ==
    IF HasDecimal(SourceLine(l)) THEN FloatAdd(l.receivedQty, l.openQty)
    ELSE l.receivedQty + l.openQty

\* C39: every line returned by get_purchase_order has
\* receivedQty + openQty == orderedQty
C39_ReceivedPlusOpenIsOrdered ==
    (lastcall.op = "get_purchase_order" /\ lastcall.kind = "ok") =>
        \A i \in 1..Len(lastcall.value.lines) :
            ReceivedPlusOpen(lastcall.value.lines[i]) = lastcall.value.lines[i].orderedQty

\* C39, the failing case: the ERP reports Quantity 0.9 and OpenQuantity 0.3;
\* the line returned has a receivedQty that is not 0.6, and receivedQty +
\* openQty is not the orderedQty
C39_SumOffByRounding ==
    /\ lastcall.op = "get_purchase_order" /\ lastcall.kind = "ok"
    /\ lastcall.body.DocumentLines[1].Quantity = Dec("0.9")
    /\ lastcall.body.DocumentLines[1].OpenQuantity = Dec("0.3")
    /\ Len(lastcall.value.lines) = 1
    /\ lastcall.value.lines[1].orderedQty = ParseDouble("0.9")
    /\ lastcall.value.lines[1].openQty = ParseDouble("0.3")
    /\ lastcall.value.lines[1].receivedQty # ParseDouble("0.6")
    /\ FloatAdd(lastcall.value.lines[1].receivedQty, lastcall.value.lines[1].openQty)
          # ParseDouble("0.9")

====
